---- MODULE Spec2Model ----
(***************************************************************************)
(* ONE_sync: ingestion of CVE advisory records into a MongoDB store.       *)
(*                                                                         *)
(* The model follows the wired code path                                   *)
(*   server.js main -> fileService.processBatch -> processFileWithRetry    *)
(*   -> dbService.upsertCVE -> CVE.fromRawData (models/cveModel.js)        *)
(*   -> productService.processVendorProducts (services/productService.js)  *)
(*   -> Product.findOrCreate (productModel, unnamed/part_008 lines 45-128) *)
(*   -> CVE.findOneAndUpdate / findOne / save / create.                    *)
(*                                                                         *)
(* One action is one store or file operation of a record task together     *)
(* with the synchronous code that follows it up to the next await.  The    *)
(* store is shared by all tasks of a window; nothing else is.              *)
(***************************************************************************)
EXTENDS Integers, Sequences, FiniteSets, TLC

VARIABLES
    files,      \* the record locations handed to processBatch, with their content
    vendors,    \* Vendor collection   (append-only sequence, _id = index)
    products,   \* Product collection  (append-only sequence, _id = index)
    cves,       \* CVE collection      (append-only sequence, _id = index)
    tasks,      \* one processFileWithRetry invocation per record location
    batch,      \* local variables of processBatch
    run,        \* number of the current processBatch invocation
    snap,       \* CVE collection as it was when the previous invocation returned
    norm,       \* one call of CVE.fromRawData: its input and what it returned
    repo,       \* one call of gitService.syncRepository: the clone and its locals
    proc,       \* one call of server.js main: its position, dbService.connected
    res,        \* one call of findOrCreateVendor or Product.findOrCreate on its own
    cron        \* the cron process: dbService.connected and the runs of main it started

vars == <<files, vendors, products, cves, tasks, batch, run, snap, norm, repo, proc, res,
          cron>>

(***************************************************************************)
(* Bounds of the model and constants of the program                        *)
(***************************************************************************)
\* config.batch.size, scaled down
BatchSize == 2
\* how many times processBatch is invoked on the same record locations
MaxRuns == 2
\* default of processFileWithRetry's maxRetries parameter
MaxRetries == 3

(***************************************************************************)
(* Values                                                                  *)
(***************************************************************************)
\* an absent (undefined) string-valued property
NoVal == "undefined"

\* JavaScript truthiness of an optional string
Truthy(s) == s \notin {NoVal, ""}

\* a version label that mongoose cannot cast to String (an object or array)
BadLabel == "[object Object]"

\* the identifiers that match /^CVE-\d{4}-\d{4,}$/ among those the model uses
WellFormedIds == {"CVE-2025-0001", "CVE-2025-0002"}

\* enum of the CVE schema's state path
StateEnum == {"PUBLIC", "RESERVED", "REJECTED", "PUBLISHED"}


(***************************************************************************)
(* Errors.  A message is a sequence of fragments; String.includes is a     *)
(* search for a fragment.                                                  *)
(***************************************************************************)
NoErr == [name |-> "none", code |-> 0, message |-> <<>>, at |-> "none"]

\* MongoServerError: E11000 duplicate key error collection ...
DupKeyError(at) ==
    [name |-> "MongoServerError", code |-> 11000,
     message |-> <<"E11000 ", "duplicate key", " error collection">>, at |-> at]

\* mongoose VersionError
VersionError(at) ==
    [name |-> "VersionError", code |-> 0,
     message |-> <<"No matching document found", " for id ", "version", " modifiedPaths">>,
     at |-> at]

\* JSON.parse failure
SyntaxError(at) ==
    [name |-> "SyntaxError", code |-> 0,
     message |-> <<"Unexpected token in JSON">>, at |-> at]

\* mongoose ValidationError of a Product whose versions.N.version does not cast
ProductCastError(at) ==
    [name |-> "ValidationError", code |-> 0,
     message |-> <<"Product validation failed: ", "version", "s.0.", "version",
                   ": Cast to string failed at path ", "version">>,
     at |-> at]

\* mongoose ValidationError of a CVE document (required / match / enum)
CveValidationError(at) ==
    [name |-> "ValidationError", code |-> 0,
     message |-> <<"CVE validation failed: Path is required">>, at |-> at]

\* mongoose ValidationError of a Vendor document
VendorValidationError(at) ==
    [name |-> "ValidationError", code |-> 0,
     message |-> <<"Vendor validation failed: Path is required">>, at |-> at]

\* new Error(`Failed to find product ${name} after duplicate key error`)
LostProductError(at) ==
    [name |-> "Error", code |-> 0,
     message |-> <<"Failed to find product ", "after ", "duplicate key", " error">>,
     at |-> at]

\* new Error(`Failed to find product ${name} after version error`)
LostProductVersionError(at) ==
    [name |-> "Error", code |-> 0,
     message |-> <<"Failed to find product ", "after ", "version", " error">>,
     at |-> at]

Includes(message, fragment) == \E i \in 1..Len(message) : message[i] = fragment


(***************************************************************************)
(* Raw records.  A raw record is the content of one file: either text that *)
(* JSON.parse rejects, or a document with the properties the pipeline      *)
(* reads.  An absent list and an empty list are read alike by the code     *)
(* (affected, versions, descriptions), so both are the empty sequence.     *)
(***************************************************************************)
Raw(dataVersion, idA, idB, descs, affected) ==
    [parse |-> TRUE,
     dataVersion |-> dataVersion,       \* top-level dataVersion
     idA |-> idA,                       \* CVE_data_meta.ID
     idB |-> idB,                       \* cveMetadata.cveId
     assignerOrgId |-> NoVal,           \* cveMetadata.assignerOrgId
     assignerShortName |-> IF idB = NoVal THEN NoVal ELSE "mitre",
     state |-> IF idB = NoVal THEN NoVal ELSE "PUBLISHED",   \* cveMetadata.state
     descriptions |-> descs,            \* containers.cna.descriptions
     affected |-> affected]             \* containers.cna.affected

Unparseable ==
    [parse |-> FALSE, dataVersion |-> NoVal, idA |-> NoVal, idB |-> NoVal, assignerOrgId |-> NoVal,
     assignerShortName |-> NoVal, state |-> NoVal, descriptions |-> <<>>,
     affected |-> <<>>]

Ver(label, status) == [version |-> label, status |-> status]
Aff(vendor, product, versions) ==
    [vendor |-> vendor, product |-> product, versions |-> versions]
En(text) == <<[lang |-> "en", value |-> text]>>

(***************************************************************************)
(* RecordNormalizer: cveSchema.statics.fromRawData (models/cveModel.js)    *)
(***************************************************************************)
\* a || b || '' on optional strings
OrElse(a, b) == IF Truthy(a) THEN a ELSE IF Truthy(b) THEN b ELSE ""

\* descriptions.find(desc => desc.lang === 'en'), absent when none matches
EnglishDescription(descs) ==
    LET hits == {i \in 1..Len(descs) : descs[i].lang = "en"}
    IN  IF hits = {} THEN NoVal
        ELSE descs[CHOOSE i \in hits : \A j \in hits : i <= j].value

\* version.status === 'affected'
VersionOf(v) == [version |-> v.version, affected |-> (v.status = "affected")]

\* .filter(affected => affected.vendor && affected.product).map(...)
KeepAffected(a) == Truthy(a.vendor) /\ Truthy(a.product)

ExtractVendorProducts(affected) ==
    LET kept == SelectSeq(affected, KeepAffected)
    IN  [i \in 1..Len(kept) |->
            [vendorName |-> kept[i].vendor,
             products |-> <<[productName |-> kept[i].product,
                             versions |-> [k \in 1..Len(kept[i].versions) |->
                                              VersionOf(kept[i].versions[k])]]>>]]

fromRawData(rawData, sourceFile) ==
    [sourceFile |-> sourceFile,
     raw_data |-> rawData,
     affectedProducts |-> <<>>,
     cveId |-> OrElse(rawData.idB, NoVal),
     assigner |-> OrElse(rawData.assignerOrgId, rawData.assignerShortName),
     state |-> OrElse(rawData.state, NoVal),
     description |-> EnglishDescription(rawData.descriptions),
     extracted |-> ExtractVendorProducts(rawData.affected)]

NoDraft ==
    [sourceFile |-> 0, raw_data |-> Unparseable, affectedProducts |-> <<>>,
     cveId |-> "", assigner |-> "", state |-> "", description |-> NoVal,
     extracted |-> <<>>]

(***************************************************************************)
(* The store: schemas, unique indexes, queries                             *)
(***************************************************************************)
\* vendorSchema.name: unique: true
VendorNameUnique == TRUE
\* productSchema.index({ name: 1, vendor: 1 }, { unique: true })
ProductKeyUnique == TRUE
\* (the index declared without unique)
CveIdNotUnique == FALSE
\* cveSchema.cveId: unique: true
CveIdUnique == TRUE

\* first document of a collection that satisfies a query, 0 when none does
FirstIndex(hits) == IF hits = {} THEN 0 ELSE CHOOSE i \in hits : \A j \in hits : i <= j

\* (a lookup that forgets the name)
VendorFindFirst(name) ==
    FirstIndex({i \in 1..Len(vendors) : TRUE})

VendorFindOne(name) ==
    FirstIndex({i \in 1..Len(vendors) : vendors[i].name = name})

\* (a lookup by name that forgets the vendor)
ProductFindOneByName(name, vendorId) ==
    FirstIndex({i \in 1..Len(products) : products[i].name = name})

ProductFindOne(name, vendorId) ==
    FirstIndex({i \in 1..Len(products) :
                   products[i].name = name /\ products[i].vendor = vendorId})

CveFindOne(cveId) ==
    FirstIndex({i \in 1..Len(cves) : cves[i].cveId = cveId})

\* would writing cveId into document `self` (0: a new document) break the index
CveIdTaken(cveId, self) ==
    CveIdUnique /\ \E i \in 1..Len(cves) : i # self /\ cves[i].cveId = cveId

\* document validation run by save() and create() (not by findOneAndUpdate)
ValidCve(d) ==
    /\ d.cveId \in WellFormedIds
    /\ Truthy(d.description)
    /\ Truthy(d.assigner)
    /\ d.state \in StateEnum

\* every versions[].version of a Product document casts to String
CastableVersions(versions) ==
    \A k \in 1..Len(versions) : versions[k].version # BadLabel

\* the fields a draft writes into a CVE document: $set / Object.assign write
\* the keys the draft owns and leave every other stored field as it is
Assigned(old, draft) ==
    [cveId |-> draft.cveId,
     description |-> IF draft.description = NoVal THEN old.description
                     ELSE draft.description,
     assigner |-> draft.assigner,
     state |-> draft.state,
     affectedProducts |-> draft.affectedProducts,
     sourceFile |-> draft.sourceFile,
     raw_data |-> draft.raw_data,
     v |-> old.v]

EmptyCve ==
    [cveId |-> "", description |-> NoVal, assigner |-> "", state |-> "",
     affectedProducts |-> <<>>, sourceFile |-> 0, raw_data |-> Unparseable, v |-> 0]

(***************************************************************************)
(* Version-set merge of Product.findOrCreate (the Map built at lines 89-100)*)
(***************************************************************************)
\* Map.prototype.set: overwrite in place, or append a new key
MapSet(m, label, flag) ==
    IF \E i \in 1..Len(m) : m[i].version = label
    THEN [i \in 1..Len(m) |->
             IF m[i].version = label THEN [version |-> label, affected |-> flag]
             ELSE m[i]]
    ELSE Append(m, [version |-> label, affected |-> flag])

RECURSIVE MapSetAll(_, _)
MapSetAll(m, entries) ==
    IF entries = <<>> THEN m
    ELSE MapSetAll(MapSet(m, Head(entries).version, Head(entries).affected),
                   Tail(entries))

MergeVersions(stored, supplied) == MapSetAll(MapSetAll(<<>>, stored), supplied)


(***************************************************************************)
(* Record tasks: processFileWithRetry and everything it awaits             *)
(***************************************************************************)
InitTask(f) ==
    [pc |-> "idle",         \* the await the task is suspended at
     file |-> f,            \* filePath
     retries |-> 0,         \* processFileWithRetry's retries
     attempts |-> 0,        \* how many times the pipeline was entered (history)
     result |-> "none",     \* success / failed, once settled
     how |-> "none",        \* which return of upsertCVE made the success (history)
     error |-> NoErr,       \* the last error caught by processFileWithRetry
     cveId |-> NoVal,       \* upsertCVE's cveId (the lookup key)
     draft |-> NoDraft,     \* upsertCVE's processedData
     vi |-> 0,              \* index into _extractedVendorProducts
     pi |-> 0,              \* index into vendorData.products
     vendor |-> 0,          \* vendor._id
     product |-> 0,         \* product._id
     pv |-> 0,              \* __v of the document read last
     merged |-> <<>>,       \* product.versions as assigned before save()
     refs |-> <<>>,         \* processVendorProducts' affectedProducts
     matched |-> 0,         \* the CVE document the query matched
     seenRefs |-> 0]        \* length of existingCVE.affectedProducts as read

\* error.message.includes(...) of processFileWithRetry's catch
isRetryable(error) ==
    \/ Includes(error.message, "duplicate key")
    \/ Includes(error.message, "No matching document found")
    \/ Includes(error.message, "version")

\* the locals of upsertCVE and its callees go out of scope when it returns or
\* throws; the draft and the lookup key are kept as a record of the attempt
Unwound(tk) ==
    [tk EXCEPT !.vi = 0, !.pi = 0, !.vendor = 0, !.product = 0, !.pv = 0,
               !.merged = <<>>, !.matched = 0, !.seenRefs = 0]

\* (a catch block that always waits for a retry and never returns a failure)
catchAndWait(tk, error) ==
    [Unwound(tk) EXCEPT !.retries = tk.retries + 1, !.error = error, !.pc = "backoff"]

\* the catch block of processFileWithRetry
processFileWithRetry_catch(tk, error) ==
    LET r == tk.retries + 1
    IN  IF r > MaxRetries \/ ~isRetryable(error)
        THEN [Unwound(tk) EXCEPT !.retries = r, !.error = error,
                                 !.pc = "done", !.result = "failed"]
        ELSE [Unwound(tk) EXCEPT !.retries = r, !.error = error, !.pc = "backoff"]

\* return {success: true, filePath}
processFileWithRetry_return(tk, how) ==
    [Unwound(tk) EXCEPT !.pc = "done", !.result = "success", !.how = how]

\* the for loop over _extractedVendorProducts, entered at index vi; when the
\* loop ends processVendorProducts returns and upsertCVE goes on to the upsert
AdvanceVendor(tk, vi) ==
    LET ext == tk.draft.extracted
        todo == {j \in vi..Len(ext) : Truthy(ext[j].vendorName)}
    IN  IF todo = {}
        THEN [Unwound(tk) EXCEPT !.draft.affectedProducts = tk.refs,
                                 !.draft.extracted = <<>>, !.pc = "upMatch"]
        ELSE [tk EXCEPT !.vi = FirstIndex(todo), !.pi = 0, !.pc = "vFind"]

\* the for loop over vendorData.products, entered at index pi
AdvanceProduct(tk, pi) ==
    LET prods == tk.draft.extracted[tk.vi].products
        todo == {j \in pi..Len(prods) : Truthy(prods[j].productName)}
    IN  IF todo = {}
        THEN [tk EXCEPT !.pc = "vInc"]
        ELSE [tk EXCEPT !.pi = FirstIndex(todo), !.pc = "pFind"]

VendorData(tk) == tk.draft.extracted[tk.vi]
ProductData(tk) == tk.draft.extracted[tk.vi].products[tk.pi]

\* (a loop body that resolves the product and records no reference)
NotPushed(tk, p) == [tk EXCEPT !.product = p, !.pc = "pInc"]

\* affectedProducts.push({...}) once findOrCreateProduct returned product p
Pushed(tk, p) ==
    [tk EXCEPT !.product = p,
               !.refs = Append(tk.refs,
                               [product |-> p, vendor |-> tk.vendor,
                                productName |-> ProductData(tk).productName,
                                vendorName |-> VendorData(tk).vendorName,
                                versions |-> ProductData(tk).versions]),
               !.pc = "pInc"]

At(t, pc) == batch.pc = "running" /\ t \in DOMAIN tasks /\ tasks[t].pc = pc

\* readJsonFile, then upsertCVE up to its first store call
readJsonFile(t) ==
    /\ At(t, "read")
    /\ LET tk == [tasks[t] EXCEPT !.attempts = @ + 1]
           raw == files[tk.file]
       IN  tasks' = [tasks EXCEPT ![t] =
              IF ~raw.parse THEN processFileWithRetry_catch(tk, SyntaxError("readJsonFile"))
              ELSE IF ~Truthy(raw.idA) THEN processFileWithRetry_return(tk, "skipped")
              ELSE AdvanceVendor([tk EXCEPT !.cveId = raw.idA,
                                            !.draft = fromRawData(raw, tk.file),
                                            !.refs = <<>>], 1)]
    /\ UNCHANGED <<cron, res, norm, repo, proc, files, vendors, products, cves, batch, run, snap>>

\* findOrCreateVendor: Vendor.findOne({ name })
findOrCreateVendor_findOne(t) ==
    /\ At(t, "vFind")
    /\ LET tk == tasks[t]
           v == VendorFindOne(VendorData(tk).vendorName)
       IN  tasks' = [tasks EXCEPT ![t] =
              IF v = 0 THEN [tk EXCEPT !.pc = "vCreate"]
              ELSE [tk EXCEPT !.vendor = v, !.pc = "vSave"]]
    /\ UNCHANGED <<cron, res, norm, repo, proc, files, vendors, products, cves, batch, run, snap>>

\* findOrCreateVendor: Vendor.create(...); its error is logged and rethrown
findOrCreateVendor_create(t) ==
    /\ At(t, "vCreate")
    /\ LET tk == tasks[t]
           name == VendorData(tk).vendorName
       IN  IF VendorNameUnique /\ VendorFindOne(name) # 0
           THEN /\ tasks' = [tasks EXCEPT ![t] = processFileWithRetry_catch(tk, DupKeyError("Vendor.create"))]
                /\ UNCHANGED vendors
           ELSE /\ vendors' = Append(vendors,
                                  [name |-> name, productCount |-> 0, cveCount |-> 0])
                /\ tasks' = [tasks EXCEPT ![t] =
                                AdvanceProduct([tk EXCEPT !.vendor = Len(vendors) + 1], 1)]
    /\ UNCHANGED <<cron, res, norm, repo, proc, files, products, cves, batch, run, snap>>

\* findOrCreateVendor: vendor.lastSeen = new Date(); vendor.save()
\* (the save writes lastSeen alone, which the model does not keep)
findOrCreateVendor_save(t) ==
    /\ At(t, "vSave")
    /\ tasks' = [tasks EXCEPT ![t] = AdvanceProduct(tasks[t], 1)]
    /\ UNCHANGED <<cron, res, norm, repo, proc, files, vendors, products, cves, batch, run, snap>>

\* Product.findOrCreate: findOne({ name, vendor }), then the in-memory merge
findOrCreate_findOne(t) ==
    /\ At(t, "pFind")
    /\ LET tk == tasks[t]
           pd == ProductData(tk)
           p == ProductFindOne(pd.productName, tk.vendor)
       IN  tasks' = [tasks EXCEPT ![t] =
              IF p = 0 THEN [tk EXCEPT !.pc = "pCreate"]
              ELSE [tk EXCEPT !.product = p, !.pv = products[p].v,
                              !.merged = IF Len(pd.versions) > 0
                                         THEN MergeVersions(products[p].versions,
                                                            pd.versions)
                                         ELSE products[p].versions,
                              !.pc = "pSave"]]
    /\ UNCHANGED <<cron, res, norm, repo, proc, files, vendors, products, cves, batch, run, snap>>

\* Product.findOrCreate: this.create(...), E11000 caught
findOrCreate_create(t) ==
    /\ At(t, "pCreate")
    /\ LET tk == tasks[t]
           pd == ProductData(tk)
       IN  IF ~CastableVersions(pd.versions)
           THEN /\ tasks' = [tasks EXCEPT ![t] =
                                processFileWithRetry_catch(tk, ProductCastError("Product.create"))]
                /\ UNCHANGED products
           ELSE IF ProductKeyUnique /\ ProductFindOne(pd.productName, tk.vendor) # 0
           THEN /\ tasks' = [tasks EXCEPT ![t] = [tk EXCEPT !.pc = "pRefind"]]
                /\ UNCHANGED products
           ELSE /\ products' = Append(products,
                                  [name |-> pd.productName, vendor |-> tk.vendor,
                                   vendorName |-> VendorData(tk).vendorName,
                                   versions |-> pd.versions, cveCount |-> 0, v |-> 0])
                /\ tasks' = [tasks EXCEPT ![t] = Pushed(tk, Len(products) + 1)]
    /\ UNCHANGED <<cron, res, norm, repo, proc, files, vendors, cves, batch, run, snap>>

\* Product.findOrCreate: the findOne after a duplicate key error
findOrCreate_refind(t) ==
    /\ At(t, "pRefind")
    /\ LET tk == tasks[t]
           p == ProductFindOne(ProductData(tk).productName, tk.vendor)
       IN  tasks' = [tasks EXCEPT ![t] =
              IF p = 0 THEN processFileWithRetry_catch(tk, LostProductError("Product.findOrCreate"))
              ELSE Pushed(tk, p)]
    /\ UNCHANGED <<cron, res, norm, repo, proc, files, vendors, products, cves, batch, run, snap>>

\* Product.findOrCreate: product.save(); assigning the versions array makes
\* the save conditional on __v, and a mismatch is a VersionError, caught
findOrCreate_save(t) ==
    /\ At(t, "pSave")
    /\ LET tk == tasks[t]
           p == tk.product
           modified == Len(ProductData(tk).versions) > 0
       IN  IF modified /\ ~CastableVersions(tk.merged)
           THEN /\ tasks' = [tasks EXCEPT ![t] =
                                processFileWithRetry_catch(tk, ProductCastError("Product.save"))]
                /\ UNCHANGED products
           ELSE IF modified /\ products[p].v # tk.pv
           THEN /\ tasks' = [tasks EXCEPT ![t] = [tk EXCEPT !.pc = "pReread"]]
                /\ UNCHANGED products
           ELSE /\ products' = IF modified
                               THEN [products EXCEPT ![p].versions = tk.merged,
                                                     ![p].v = @ + 1]
                               ELSE products
                /\ tasks' = [tasks EXCEPT ![t] = Pushed(tk, p)]
    /\ UNCHANGED <<cron, res, norm, repo, proc, files, vendors, cves, batch, run, snap>>

\* Product.findOrCreate: the findOne after a VersionError; the document
\* found is returned as it is
findOrCreate_reread(t) ==
    /\ At(t, "pReread")
    /\ LET tk == tasks[t]
           p == ProductFindOne(ProductData(tk).productName, tk.vendor)
       IN  tasks' = [tasks EXCEPT ![t] =
              IF p = 0 THEN processFileWithRetry_catch(tk, LostProductVersionError("Product.findOrCreate"))
              ELSE Pushed(tk, p)]
    /\ UNCHANGED <<cron, res, norm, repo, proc, files, vendors, products, cves, batch, run, snap>>

\* (an update document without $inc, which replaces the fields it does not name)
Product_replace(t) ==
    /\ At(t, "pInc")
    /\ products' = [products EXCEPT ![tasks[t].product] =
                       [@ EXCEPT !.name = NoVal, !.cveCount = 1]]
    /\ tasks' = [tasks EXCEPT ![t] = AdvanceProduct(tasks[t], tasks[t].pi + 1)]
    /\ UNCHANGED <<cron, res, norm, repo, proc, files, vendors, cves, batch, run, snap>>

\* Product.findByIdAndUpdate(product._id, { $inc: { cveCount: 1 } })
Product_findByIdAndUpdate(t) ==
    /\ At(t, "pInc")
    /\ products' = [products EXCEPT ![tasks[t].product].cveCount = @ + 1]
    /\ tasks' = [tasks EXCEPT ![t] = AdvanceProduct(tasks[t], tasks[t].pi + 1)]
    /\ UNCHANGED <<cron, res, norm, repo, proc, files, vendors, cves, batch, run, snap>>

\* Vendor.findByIdAndUpdate(vendor._id, { $inc: { cveCount: 1 }, $set: { productCount } })
Vendor_findByIdAndUpdate(t) ==
    /\ At(t, "vInc")
    /\ vendors' = [vendors EXCEPT ![tasks[t].vendor] =
                      [@ EXCEPT !.cveCount = @ + 1,
                                !.productCount = Len(VendorData(tasks[t]).products)]]
    /\ tasks' = [tasks EXCEPT ![t] = AdvanceVendor(tasks[t], tasks[t].vi + 1)]
    /\ UNCHANGED <<cron, res, norm, repo, proc, files, products, cves, batch, run, snap>>


(***************************************************************************)
(* AdvisoryUpserter: the tail of dbService.upsertCVE.  findOneAndUpdate    *)
(* with upsert matches and then writes; a document inserted by another     *)
(* task between the two is what the unique index reports as E11000.        *)
(***************************************************************************)
\* CVE.findOneAndUpdate({ cveId }, processedData, { upsert: true }): the match
findOneAndUpdate_match(t) ==
    /\ At(t, "upMatch")
    /\ tasks' = [tasks EXCEPT ![t] =
                    [tasks[t] EXCEPT !.matched = CveFindOne(tasks[t].cveId),
                                     !.pc = "upWrite"]]
    /\ UNCHANGED <<cron, res, norm, repo, proc, files, vendors, products, cves, batch, run, snap>>

\* CVE.findOneAndUpdate: the update of the matched document or the insert;
\* a duplicate key error leads to the separate find and update
findOneAndUpdate_write(t) ==
    /\ At(t, "upWrite")
    /\ LET tk == tasks[t]
           m == tk.matched
       IN  IF CveIdTaken(tk.draft.cveId, m)
           THEN /\ tasks' = [tasks EXCEPT ![t] = [tk EXCEPT !.pc = "cFind"]]
                /\ UNCHANGED cves
           ELSE /\ cves' = IF m = 0 THEN Append(cves, Assigned(EmptyCve, tk.draft))
                           ELSE [cves EXCEPT ![m] = Assigned(@, tk.draft)]
                /\ tasks' = [tasks EXCEPT ![t] = processFileWithRetry_return(tk, "upsert")]
    /\ UNCHANGED <<cron, res, norm, repo, proc, files, vendors, products, batch, run, snap>>

\* the fallback: CVE.findOne({ cveId })
upsertCVE_findOne(t) ==
    /\ At(t, "cFind")
    /\ LET tk == tasks[t]
           e == CveFindOne(tk.cveId)
       IN  tasks' = [tasks EXCEPT ![t] =
              IF e # 0
              THEN [tk EXCEPT !.matched = e, !.pv = cves[e].v,
                              !.seenRefs = Len(cves[e].affectedProducts),
                              !.pc = "cSave"]
              ELSE [tk EXCEPT !.pc = "cCreate"]]
    /\ UNCHANGED <<cron, res, norm, repo, proc, files, vendors, products, cves, batch, run, snap>>

\* the fallback: Object.assign(existingCVE, processedData); existingCVE.save()
upsertCVE_save(t) ==
    /\ At(t, "cSave")
    /\ LET tk == tasks[t]
           e == tk.matched
           doc == Assigned(cves[e], tk.draft)
           modified == tk.seenRefs > 0 \/ Len(tk.draft.affectedProducts) > 0
       IN  IF ~ValidCve(doc)
           THEN /\ tasks' = [tasks EXCEPT ![t] = processFileWithRetry_catch(tk, CveValidationError("CVE.save"))]
                /\ UNCHANGED cves
           ELSE IF modified /\ cves[e].v # tk.pv
           THEN /\ tasks' = [tasks EXCEPT ![t] = processFileWithRetry_catch(tk, VersionError("CVE.save"))]
                /\ UNCHANGED cves
           ELSE IF CveIdTaken(doc.cveId, e)
           THEN /\ tasks' = [tasks EXCEPT ![t] = processFileWithRetry_catch(tk, DupKeyError("CVE.save"))]
                /\ UNCHANGED cves
           ELSE /\ cves' = [cves EXCEPT ![e] =
                               [doc EXCEPT !.v = IF modified THEN @ + 1 ELSE @]]
                /\ tasks' = [tasks EXCEPT ![t] = processFileWithRetry_return(tk, "save")]
    /\ UNCHANGED <<cron, res, norm, repo, proc, files, vendors, products, batch, run, snap>>

\* the fallback: CVE.create(processedData)
upsertCVE_create(t) ==
    /\ At(t, "cCreate")
    /\ LET tk == tasks[t]
           doc == Assigned(EmptyCve, tk.draft)
       IN  IF ~ValidCve(doc)
           THEN /\ tasks' = [tasks EXCEPT ![t] =
                                processFileWithRetry_catch(tk, CveValidationError("CVE.create"))]
                /\ UNCHANGED cves
           ELSE IF CveIdTaken(doc.cveId, 0)
           THEN /\ tasks' = [tasks EXCEPT ![t] = processFileWithRetry_catch(tk, DupKeyError("CVE.create"))]
                /\ UNCHANGED cves
           ELSE /\ cves' = Append(cves, doc)
                /\ tasks' = [tasks EXCEPT ![t] = processFileWithRetry_return(tk, "create")]
    /\ UNCHANGED <<cron, res, norm, repo, proc, files, vendors, products, batch, run, snap>>

\* the delay before a retry has elapsed; the while loop is entered again
retryDelay(t) ==
    /\ At(t, "backoff")
    /\ tasks[t].retries <= MaxRetries
    /\ tasks' = [tasks EXCEPT ![t] = [tasks[t] EXCEPT !.pc = "read"]]
    /\ UNCHANGED <<cron, res, norm, repo, proc, files, vendors, products, cves, batch, run, snap>>

(***************************************************************************)
(* IngestionCoordinator: fileService.processBatch                          *)
(***************************************************************************)
\* (the whole list taken as one window)
WholeList(i) == DOMAIN files

\* files.slice(i, i + batchSize), as the set of its indexes
Window(i) == {t \in DOMAIN files : i < t /\ t <= i + BatchSize}

\* batch.map(filePath => this.processFileWithRetry(...)): every task of the
\* window runs up to its first await
Launch(ts, i) ==
    [t \in DOMAIN ts |-> IF t \in Window(i) THEN [ts[t] EXCEPT !.pc = "read"] ELSE ts[t]]

\* (every result of the window counted as a success)
WindowLength(i) == Cardinality(Window(i))

\* batchResults.filter(r => r.success).length
BatchSuccesses(i) == Cardinality({t \in Window(i) : tasks[t].result = "success"})

\* batchResults.filter(r => !r.success).map(f => f.filePath), in window order
BatchFailures(i) ==
    LET all == [k \in 1..Len(files) |-> k]
        failedInWindow(t) == t \in Window(i) /\ tasks[t].result # "success"
    IN  SelectSeq(all, failedInWindow)

IdleBatch ==
    [pc |-> "idle", i |-> 0, processedCount |-> 0, successCount |-> 0,
     failedCount |-> 0, failedFiles |-> <<>>]

\* processBatch is called: the counters are set and the first window launched
processBatch ==
    /\ batch.pc = "idle"
    /\ batch' = [IdleBatch EXCEPT !.pc = IF Len(files) > 0 THEN "running" ELSE "done"]
    /\ tasks' = Launch([t \in DOMAIN files |-> InitTask(t)], 0)
    /\ UNCHANGED <<cron, res, norm, repo, proc, files, vendors, products, cves, run, snap>>

\* Promise.all of the window resolves: the results are tallied and the for
\* loop goes on to the next window, or ends and the report is returned
processBatch_settle ==
    /\ batch.pc = "running"
    /\ \A t \in Window(batch.i) : tasks[t].pc = "done"
    /\ LET next == batch.i + BatchSize
           failures == BatchFailures(batch.i)
       IN  /\ batch' = [batch EXCEPT
                          !.i = next,
                          !.successCount = @ + BatchSuccesses(batch.i),
                          !.failedCount = @ + Len(failures),
                          !.failedFiles = @ \o failures,
                          !.processedCount = @ + Cardinality(Window(batch.i)),
                          !.pc = IF next < Len(files) THEN "running" ELSE "done"]
           /\ tasks' = IF next < Len(files) THEN Launch(tasks, next) ELSE tasks
    /\ UNCHANGED <<cron, res, norm, repo, proc, files, vendors, products, cves, run, snap>>

\* the scheduled job calls main again: the same record locations are
\* processed once more against the store the earlier run left
cronRun ==
    /\ batch.pc = "done"
    /\ run < MaxRuns
    /\ run' = run + 1
    /\ snap' = cves
    /\ batch' = IdleBatch
    /\ tasks' = [t \in DOMAIN files |-> InitTask(t)]
    /\ UNCHANGED <<cron, res, norm, repo, proc, files, vendors, products, cves>>


(***************************************************************************)
(* The parts of the program that are not running in a specification        *)
(***************************************************************************)
\* CVE.fromRawData has not been called
NormIdle == [pc |-> "idle"]
\* gitService.syncRepository has not been called
RepoIdle == [pc |-> "idle"]
\* main has not been called through its steps
ProcIdle == [pc |-> "idle"]
\* no resolve operation is looked at on its own
ResIdle == [pc |-> "idle"]
\* no cron process is looked at
CronIdle == [pc |-> "idle"]

(***************************************************************************)
(* The record corpora the runs are checked on                              *)
(***************************************************************************)
Id1 == "CVE-2025-0001"
Id2 == "CVE-2025-0002"

\* a record that carries its identifier at both dialects' paths
Both(id, affected) == Raw("5.1", id, id, En("text"), affected)
\* a dialect-A record: CVE_data_meta only
DialectA(id) == Raw("4.0", id, NoVal, <<>>, <<>>)
\* a dialect-B record: cveMetadata and containers only
DialectB(id, affected) == Raw("5.1", NoVal, id, En("text"), affected)
\* parseable JSON without any identifier
NoIdentifier == Raw(NoVal, NoVal, NoVal, <<>>, <<>>)

Widget10 == Both(Id1, <<Aff("Acme", "Widget", <<Ver("1.0", "affected")>>)>>)
Widget20 == Both(Id2, <<Aff("Acme", "Widget", <<Ver("1.0", "unaffected"),
                                                 Ver("2.0", "affected")>>),
                         Aff("Bolt", "Widget", <<>>)>>)
\* a record with both identifiers and no English description
Undescribed(id) == Raw("5.1", id, id, <<>>, <<>>)
\* a record whose affected list holds one vendor twice, a blank vendor name
\* and the placeholder "n/a" as a vendor and as a product name
Placeholders == Both(Id1, <<Aff("Acme", "Widget", <<>>), Aff("", "Widget", <<>>),
                            Aff("n/a", "Widget", <<>>), Aff("Acme", "n/a", <<>>)>>)
\* a record whose first affected entry links and whose second one has a
\* version label that does not cast
HalfLinked == Both(Id2, <<Aff("Acme", "Widget", <<>>),
                          Aff("Acme", "Gadget", <<Ver(BadLabel, "affected")>>)>>)
Uncastable == Both(Id1, <<Aff("Acme", "Widget", <<Ver(BadLabel, "affected")>>)>>)

Corpora ==
    { <<Widget10, Widget10>>,
      <<Widget10, Widget20>>,
      <<Unparseable, DialectB(Id1, <<Aff("Acme", "Widget", <<>>)>>), NoIdentifier>>,
      <<DialectA(Id1), DialectA(Id2)>>,
      <<Uncastable>>,
      <<Uncastable, NoIdentifier, DialectA(Id1)>>,
      <<Both(Id1, <<>>), NoIdentifier, Undescribed(Id1)>>,
      <<Placeholders>>,
      <<HalfLinked>> }

(***************************************************************************)
(* Specification                                                           *)
(***************************************************************************)
Init ==
    /\ files \in Corpora
    /\ vendors = <<>>
    /\ products = <<>>
    /\ cves = <<>>
    /\ tasks = [t \in DOMAIN files |-> InitTask(t)]
    /\ batch = IdleBatch
    /\ run = 1
    /\ snap = <<>>
    /\ norm = NormIdle
    /\ repo = RepoIdle
    /\ proc = ProcIdle
    /\ cron = CronIdle
    /\ res = ResIdle

Next ==
    \/ processBatch
    \/ processBatch_settle
    \/ cronRun
    \/ \E t \in DOMAIN tasks : readJsonFile(t)
    \/ \E t \in DOMAIN tasks : findOrCreateVendor_findOne(t)
    \/ \E t \in DOMAIN tasks : findOrCreateVendor_create(t)
    \/ \E t \in DOMAIN tasks : findOrCreateVendor_save(t)
    \/ \E t \in DOMAIN tasks : findOrCreate_findOne(t)
    \/ \E t \in DOMAIN tasks : findOrCreate_create(t)
    \/ \E t \in DOMAIN tasks : findOrCreate_refind(t)
    \/ \E t \in DOMAIN tasks : findOrCreate_save(t)
    \/ \E t \in DOMAIN tasks : findOrCreate_reread(t)
    \/ \E t \in DOMAIN tasks : Product_findByIdAndUpdate(t)
    \/ \E t \in DOMAIN tasks : Vendor_findByIdAndUpdate(t)
    \/ \E t \in DOMAIN tasks : findOneAndUpdate_match(t)
    \/ \E t \in DOMAIN tasks : findOneAndUpdate_write(t)
    \/ \E t \in DOMAIN tasks : upsertCVE_findOne(t)
    \/ \E t \in DOMAIN tasks : upsertCVE_save(t)
    \/ \E t \in DOMAIN tasks : upsertCVE_create(t)
    \/ \E t \in DOMAIN tasks : retryDelay(t)

Spec == Init /\ [][Next]_vars

\* every awaited store or file operation and every timer eventually completes,
\* and the event loop then runs the continuation that waits for it
SpecLive == Init /\ [][Next]_vars /\ WF_vars(Next)


(***************************************************************************)
(* Vocabulary of the properties                                            *)
(***************************************************************************)
\* the identifier a record carries, at either dialect's path
ExtractableId(raw) == IF Truthy(raw.idB) THEN raw.idB ELSE raw.idA

\* no other record location of the corpus carries the identifier of location f
OnlyLocation(f) ==
    \A g \in DOMAIN files :
        g # f => ExtractableId(files[g]) # ExtractableId(files[f])

\* the documents of a CVE collection that carry an identifier
DocsWithId(coll, id) == {i \in 1..Len(coll) : coll[i].cveId = id}

\* a stored advisory without its store-managed version counter
FieldsOf(doc) == [doc EXCEPT !.v = 0]

OneCvePerId ==
    \A i, j \in 1..Len(cves) : cves[i].cveId = cves[j].cveId => i = j

LabelsOf(versions) == {versions[k].version : k \in 1..Len(versions)}

\* the flag a version sequence gives a label (the last entry wins)
FlagOf(versions, label) ==
    LET at == {k \in 1..Len(versions) : versions[k].version = label}
    IN  versions[CHOOSE k \in at : \A m \in at : m <= k].affected

\* every affected-product reference held by a task or stored in an advisory
AllRefs ==
    UNION ({ {tasks[t].refs[k] : k \in 1..Len(tasks[t].refs)} : t \in DOMAIN tasks }
           \cup { {cves[i].affectedProducts[k] : k \in 1..Len(cves[i].affectedProducts)} :
                  i \in 1..Len(cves) })

(***************************************************************************)
(* C1  Idempotence of ingestion: once a record with an extractable id has  *)
(* been put through the per-record pipeline twice (two runs over the same  *)
(* content), the store holds exactly one advisory with that id, and its    *)
(* field values are those it had after the first run.                      *)
(***************************************************************************)
C1_Idempotence ==
    (run >= 2 /\ batch.pc = "done") =>
        \A f \in DOMAIN files :
            LET id == ExtractableId(files[f])
            IN  (files[f].parse /\ Truthy(id) /\ OnlyLocation(f)) =>
                    /\ Cardinality(DocsWithId(cves, id)) = 1
                    /\ Cardinality(DocsWithId(snap, id)) = 1
                    /\ \A i \in DocsWithId(cves, id) : \A j \in DocsWithId(snap, id) :
                           FieldsOf(cves[i]) = FieldsOf(snap[j])

(***************************************************************************)
(* C2  Race safety of organization resolution: no findOrCreateVendor call  *)
(* fails on the create of a vendor that a concurrent call created first,   *)
(* the store holds one Vendor per name, and calls that resolved the same    *)
(* name hold the same document.                                            *)
(***************************************************************************)
C2_RaceSafety ==
    /\ \A t \in DOMAIN tasks : tasks[t].error.at # "Vendor.create"
    /\ \A i, j \in 1..Len(vendors) : vendors[i].name = vendors[j].name => i = j
    /\ \A t, u \in DOMAIN tasks :
          (/\ tasks[t].vendor # 0
           /\ tasks[u].vendor # 0
           /\ VendorData(tasks[t]).vendorName = VendorData(tasks[u]).vendorName)
          => tasks[t].vendor = tasks[u].vendor

(***************************************************************************)
(* C3  A uniqueness violation raised by the create step of                 *)
(* findOrCreateVendor or Product.findOrCreate never reaches the caller:    *)
(* no record task catches a duplicate key error that came from either.     *)
(***************************************************************************)
C3_ConflictNotPropagated ==
    \A t \in DOMAIN tasks :
        ~(tasks[t].error.code = 11000
          /\ tasks[t].error.at \in {"Vendor.create", "Product.create"})

(***************************************************************************)
(* C4  Advisory upsert race recovery: the store never holds two advisories *)
(* with one id; an upsert whose write meets a uniqueness violation re-reads *)
(* by id, then overwrites and saves the document found, or creates one     *)
(* when none is found.                                                     *)
(***************************************************************************)
C4_FallbackStep ==
    \A t \in DOMAIN tasks :
        LET tk == tasks[t]
            tn == tasks'[t]
        IN  /\ (tk.pc = "upWrite" /\ tn.pc # "upWrite"
                /\ \E i \in 1..Len(cves) : i # tk.matched /\ cves[i].cveId = tk.draft.cveId)
               => (tn.pc = "cFind" /\ cves' = cves)
            /\ (tk.pc = "cFind" /\ tn.pc # "cFind")
               => (tn.pc = IF DocsWithId(cves, tk.cveId) # {} THEN "cSave" ELSE "cCreate")
            /\ (tk.pc = "cSave" /\ tn.result = "success")
               => /\ Len(cves') = Len(cves)
                  /\ tk.matched \in DocsWithId(cves, tk.cveId)
                  /\ FieldsOf(cves'[tk.matched]) = FieldsOf(Assigned(cves[tk.matched], tk.draft))
            /\ (tk.pc = "cCreate" /\ tn.result = "success")
               => /\ Len(cves') = Len(cves) + 1
                  /\ FieldsOf(cves'[Len(cves')]) = FieldsOf(Assigned(EmptyCve, tk.draft))

C4_UpsertRaceRecovery == []OneCvePerId /\ [][C4_FallbackStep]_vars

\* two records with one new id raced, and the loser of the upsert saved
\* over the winner's document
C4_Witness ==
    \E t, u \in DOMAIN tasks :
        /\ t # u
        /\ tasks[t].cveId = tasks[u].cveId
        /\ tasks[t].how = "upsert"
        /\ tasks[u].how = "save"
        /\ run = 1
        /\ Cardinality(DocsWithId(cves, tasks[u].cveId)) = 1

(***************************************************************************)
(* C5  Offering uniqueness: the store never holds two Products with the    *)
(* same (name, vendor) pair, and every reference resolved under a vendor   *)
(* points at the Product of that name owned by that vendor, so one name    *)
(* under two vendors is two documents.                                     *)
(***************************************************************************)
C5_OfferingUniqueness ==
    /\ \A i, j \in 1..Len(products) :
          (products[i].name = products[j].name /\ products[i].vendor = products[j].vendor)
          => i = j
    /\ \A r \in AllRefs :
          /\ products[r.product].name = r.productName
          /\ products[r.product].vendor = r.vendor
    /\ \A r, q \in AllRefs :
          (r.productName = q.productName /\ r.vendor # q.vendor) => r.product # q.product

\* one product name resolved under two vendors
C5_Witness ==
    \E r, q \in AllRefs :
        /\ r.productName = q.productName
        /\ r.vendor # q.vendor
        /\ r.product # q.product

(***************************************************************************)
(* C6  Version-set merge: when Product.findOrCreate returns from its       *)
(* branch for an existing product, called with a non-empty version set V,  *)
(* the stored set is the label-keyed union of the set stored before and V: *)
(* V's flag for every label of V, the old flag for every other stored      *)
(* label; and the stored set of a product changes in no other way.         *)
(***************************************************************************)
C6_MergeStep ==
    /\ \A t \in DOMAIN tasks :
          (/\ tasks[t].pc \in {"pSave", "pReread"}
           /\ tasks'[t].pc = "pInc"
           /\ Len(ProductData(tasks[t]).versions) > 0)
          => LET V == ProductData(tasks[t]).versions
                 old == products[tasks'[t].product].versions
                 new == products'[tasks'[t].product].versions
             IN  /\ LabelsOf(new) = LabelsOf(old) \cup LabelsOf(V)
                 /\ Len(new) = Cardinality(LabelsOf(new))
                 /\ \A l \in LabelsOf(new) :
                       FlagOf(new, l) = IF l \in LabelsOf(V) THEN FlagOf(V, l)
                                        ELSE FlagOf(old, l)
    /\ \A p \in 1..Len(products) :
          products'[p].versions # products[p].versions
          => \E t \in DOMAIN tasks :
                tasks[t].pc = "pSave" /\ tasks[t].product = p /\ tasks'[t].pc = "pInc"

C6_VersionSetMerge == [][C6_MergeStep]_vars

\* {1.0: true} was stored, {1.0: false, 2.0: true} was merged into it
C6_Witness ==
    \E p \in 1..Len(products) :
        /\ products[p].v = 1
        /\ products[p].versions = <<[version |-> "1.0", affected |-> FALSE],
                                    [version |-> "2.0", affected |-> TRUE]>>
        /\ \E t \in DOMAIN tasks :
              /\ tasks[t].pc = "pInc"
              /\ tasks[t].product = p
              /\ Len(ProductData(tasks[t]).versions) = 2
        /\ \E u \in DOMAIN tasks :
              /\ tasks[u].result = "success"
              /\ tasks[u].draft.affectedProducts # <<>>
              /\ tasks[u].draft.affectedProducts[1].product = p
              /\ tasks[u].draft.affectedProducts[1].versions =
                     <<[version |-> "1.0", affected |-> TRUE]>>

(***************************************************************************)
(* C7  Merge under an optimistic-concurrency conflict: after the VersionError *)
(* of a save, Product.findOrCreate re-reads the product and merges the     *)
(* supplied version set into what it read, to save it again.               *)
(***************************************************************************)
C7_RetryStep ==
    \A t \in DOMAIN tasks :
        (/\ tasks[t].pc = "pReread"
         /\ tasks'[t].pc # "pReread"
         /\ ProductFindOne(ProductData(tasks[t]).productName, tasks[t].vendor) # 0)
        => /\ tasks'[t].pc = "pSave"
           /\ tasks'[t].merged =
                 MergeVersions(products[tasks'[t].product].versions,
                               ProductData(tasks[t]).versions)

C7_RetryMergeOnConflict == [][C7_RetryStep]_vars

(***************************************************************************)
(* C8  Partial-failure isolation: when processBatch returns, every record  *)
(* location has been attempted and has settled, total = N, succeeded =     *)
(* N - |F|, failed = |F| and failedFiles lists exactly the locations of F, *)
(* each once, F being the records that failed for good (every unparseable  *)
(* record among them).                                                     *)
(***************************************************************************)
C8_PartialFailureIsolation ==
    batch.pc = "done" =>
        LET N == Len(files)
            F == {t \in DOMAIN files : tasks[t].result = "failed"}
        IN  /\ \A t \in DOMAIN files : tasks[t].pc = "done" /\ tasks[t].attempts >= 1
            /\ \A t \in DOMAIN files : ~files[t].parse => t \in F
            /\ batch.processedCount = N
            /\ batch.successCount = N - Cardinality(F)
            /\ batch.failedCount = Cardinality(F)
            /\ Len(batch.failedFiles) = Cardinality(F)
            /\ {batch.failedFiles[k] : k \in 1..Len(batch.failedFiles)} = F

\* a record of the first window failed for good, its sibling and the record
\* of the second window were processed and counted
C8_Witness ==
    /\ batch.pc = "done"
    /\ Len(files) = 3
    /\ batch.i >= 3
    /\ batch.failedFiles = <<1>>
    /\ batch.successCount = 2
    /\ batch.failedCount = 1

(***************************************************************************)
(* C9  A malformed record (unparseable, or without an extractable id) is   *)
(* attempted exactly once and is settled as failed.                        *)
(***************************************************************************)
Malformed(raw) == ~raw.parse \/ ~Truthy(ExtractableId(raw))

C9_MalformedFailsOnce ==
    \A t \in DOMAIN tasks :
        (tasks[t].pc = "done" /\ Malformed(files[t]))
        => (tasks[t].attempts = 1 /\ tasks[t].result = "failed")

(***************************************************************************)
(* C10  Retry classification: a record waits for a retry only after a      *)
(* uniqueness violation, an optimistic-concurrency conflict or a 'no       *)
(* matching document' result; any other failure settles it as failed.      *)
(***************************************************************************)
TransientClass(error) == error.code = 11000 \/ error.name = "VersionError"

C10_RetryOnlyTransient ==
    \A t \in DOMAIN tasks :
        tasks[t].pc = "backoff" => TransientClass(tasks[t].error)

(***************************************************************************)
(* C11  Attempt ceiling: the pipeline of a record is entered at most 3     *)
(* times within one run, whatever failures occur.                          *)
(***************************************************************************)
C11_AttemptCeiling ==
    \A t \in DOMAIN tasks : tasks[t].attempts <= 3

(***************************************************************************)
(* C12  Window discipline: at most a window's worth of records is in       *)
(* flight, and a record of a later window has not started while a record   *)
(* of an earlier window is unsettled (running or waiting for a retry).     *)
(***************************************************************************)
InFlight == {t \in DOMAIN tasks : tasks[t].pc \notin {"idle", "done"}}

WindowOf(t) == (t - 1) \div BatchSize

C12_WindowDiscipline ==
    /\ Cardinality(InFlight) <= BatchSize
    /\ \A t, u \in DOMAIN tasks :
          (WindowOf(t) < WindowOf(u) /\ tasks[u].pc # "idle") => tasks[t].pc = "done"

\* the record of the second window is in flight after a record of the first
\* window went through every retry delay and was settled as failed
C12_Witness ==
    /\ Len(files) = 3
    /\ tasks[1].pc = "done"
    /\ tasks[1].retries = MaxRetries + 1
    /\ tasks[2].pc = "done"
    /\ tasks[3].pc \notin {"idle", "done"}

(***************************************************************************)
(* C13  Counter idempotence: the cveCount of a Product or Vendor never     *)
(* exceeds the number of distinct advisories (ids) of the corpus that      *)
(* reference it, however often those advisories are ingested.              *)
(***************************************************************************)
AdvisoriesOfProduct(p) ==
    {ExtractableId(files[f]) : f \in
        {g \in DOMAIN files :
            \E k \in 1..Len(files[g].affected) :
                /\ files[g].affected[k].vendor = products[p].vendorName
                /\ files[g].affected[k].product = products[p].name}}

AdvisoriesOfVendor(v) ==
    {ExtractableId(files[f]) : f \in
        {g \in DOMAIN files :
            \E k \in 1..Len(files[g].affected) :
                files[g].affected[k].vendor = vendors[v].name}}

C13_CounterIdempotence ==
    /\ \A p \in 1..Len(products) :
          products[p].cveCount <= Cardinality(AdvisoriesOfProduct(p))
    /\ \A v \in 1..Len(vendors) :
          vendors[v].cveCount <= Cardinality(AdvisoriesOfVendor(v))

(***************************************************************************)
(* C16  Full replacement on re-ingestion: when upsertCVE writes a draft    *)
(* over the stored advisory of its id, every draft-derived field of the    *)
(* stored document is the draft's, a field the draft leaves unset being    *)
(* unset in the document.                                                  *)
(***************************************************************************)
C16_ReplaceStep ==
    \A t \in DOMAIN tasks :
        (/\ tasks[t].pc \in {"upWrite", "cSave"}
         /\ tasks[t].matched # 0
         /\ tasks'[t].result = "success")
        => /\ cves'[tasks[t].matched].description = tasks[t].draft.description
           /\ cves'[tasks[t].matched].assigner = tasks[t].draft.assigner
           /\ cves'[tasks[t].matched].state = tasks[t].draft.state
           /\ cves'[tasks[t].matched].affectedProducts = tasks[t].draft.affectedProducts

C16_FullReplacement == [][C16_ReplaceStep]_vars

(***************************************************************************)
(* C22  Dialect detection applied consistently: a record is dialect B      *)
(* exactly when its dataVersion begins with "5"; upsertCVE skips a record  *)
(* exactly when the identifier at the detected dialect's path is missing,  *)
(* and the draft fromRawData makes carries the identifier of that path.    *)
(***************************************************************************)
\* dataVersion begins with "5", among the markers of the corpora
BeginsWithFive(dataVersion) == dataVersion \in {"5.0", "5.1"}

\* the identifier at the path of the dialect the record is detected as
DetectedId(raw) == IF BeginsWithFive(raw.dataVersion) THEN raw.idB ELSE raw.idA

C22_DialectConsistency ==
    \A t \in DOMAIN tasks :
        (tasks[t].attempts >= 1 /\ files[t].parse)
        => IF Truthy(DetectedId(files[t]))
           THEN /\ tasks[t].how # "skipped"
                /\ tasks[t].draft # NoDraft
                /\ tasks[t].draft.cveId = DetectedId(files[t])
           ELSE tasks[t].pc = "done" /\ tasks[t].how = "skipped"

(***************************************************************************)
(* C23  Blank and "n/a" names are dropped: the store never holds a Vendor  *)
(* or a Product whose name is blank or "n/a", and no affected-product      *)
(* reference, held by a task or stored, carries such a vendor or product   *)
(* name.                                                                   *)
(***************************************************************************)
BlankOrNA(name) == name \in {NoVal, "", "n/a"}

C23_PlaceholdersDropped ==
    /\ \A v \in 1..Len(vendors) : ~BlankOrNA(vendors[v].name)
    /\ \A p \in 1..Len(products) : ~BlankOrNA(products[p].name)
    /\ \A r \in AllRefs : ~BlankOrNA(r.vendorName) /\ ~BlankOrNA(r.productName)

(***************************************************************************)
(* C24  Link completeness: once processVendorProducts has returned, the    *)
(* references it produced are, in draft order, one for every pair of the   *)
(* draft whose vendor name is present, each resolved to the Vendor and the *)
(* Product of its names, and none for a pair without a vendor name; every  *)
(* stored advisory holds the complete references of its record.            *)
(***************************************************************************)
HasVendorName(vendorData) == Truthy(vendorData.vendorName)

\* the pairs of the draft made from a record that are to be linked
EligiblePairs(raw) == SelectSeq(ExtractVendorProducts(raw.affected), HasVendorName)

\* processVendorProducts has returned to upsertCVE in the task's last attempt
Linked(t) ==
    \/ tasks[t].pc \in {"upMatch", "upWrite", "cFind", "cSave", "cCreate"}
    \/ tasks[t].how \in {"upsert", "save", "create"}

RefsMatch(refs, pairs) ==
    /\ Len(refs) = Len(pairs)
    /\ \A k \in 1..Len(refs) :
          /\ refs[k].vendorName = pairs[k].vendorName
          /\ refs[k].productName = pairs[k].products[1].productName
          /\ refs[k].versions = pairs[k].products[1].versions
          /\ vendors[refs[k].vendor].name = refs[k].vendorName
          /\ products[refs[k].product].name = refs[k].productName
          /\ products[refs[k].product].vendor = refs[k].vendor

C24_LinkCompleteness ==
    /\ \A t \in DOMAIN tasks :
          Linked(t) => RefsMatch(tasks[t].draft.affectedProducts, EligiblePairs(files[t]))
    /\ \A i \in 1..Len(cves) :
          RefsMatch(cves[i].affectedProducts, EligiblePairs(files[cves[i].sourceFile]))

\* a record with four affected entries, one of them without a vendor name,
\* was stored with the three references of the others
C24_Witness ==
    \E t \in DOMAIN tasks :
        /\ tasks[t].result = "success"
        /\ Len(files[t].affected) = 4
        /\ Len(tasks[t].draft.affectedProducts) = 3
        /\ \E i \in 1..Len(cves) :
              /\ cves[i].sourceFile = t
              /\ cves[i].affectedProducts = tasks[t].draft.affectedProducts

(***************************************************************************)
(* C26  One increment per entity per link: a processVendorProducts call    *)
(* increments the cveCount of each Vendor and each Product its draft       *)
(* references once, however many affected entries name it; so during the   *)
(* first run no counter exceeds the number of calls made so far for the    *)
(* records that reference the entity.                                      *)
(***************************************************************************)
RECURSIVE SumAttempts(_)
SumAttempts(ts) ==
    IF ts = {} THEN 0
    ELSE LET t == CHOOSE u \in ts : TRUE
         IN  tasks[t].attempts + SumAttempts(ts \ {t})

\* the record locations whose affected list names the vendor / the product
LocationsOfVendor(v) ==
    {f \in DOMAIN files :
        \E k \in 1..Len(files[f].affected) : files[f].affected[k].vendor = vendors[v].name}

LocationsOfProduct(p) ==
    {f \in DOMAIN files :
        \E k \in 1..Len(files[f].affected) :
            /\ files[f].affected[k].vendor = products[p].vendorName
            /\ files[f].affected[k].product = products[p].name}

C26_OneIncrementPerLink ==
    run = 1 =>
        /\ \A v \in 1..Len(vendors) :
              vendors[v].cveCount <= SumAttempts(LocationsOfVendor(v))
        /\ \A p \in 1..Len(products) :
              products[p].cveCount <= SumAttempts(LocationsOfProduct(p))

(***************************************************************************)
(* C29  Entities are append-only: no step of the pipeline removes a Vendor *)
(* or a Product, and the key of a stored entity (a Vendor's name, a        *)
(* Product's name and vendor) is the same after every step.                *)
(***************************************************************************)
C29_AppendOnlyStep ==
    /\ Len(vendors') >= Len(vendors)
    /\ Len(products') >= Len(products)
    /\ \A v \in 1..Len(vendors) : vendors'[v].name = vendors[v].name
    /\ \A p \in 1..Len(products) :
          /\ products'[p].name = products[p].name
          /\ products'[p].vendor = products[p].vendor

C29_EntitiesAppendOnly == [][C29_AppendOnlyStep]_vars

\* two vendors exist, and a product was found again, had a version set
\* merged into it and was counted a second time
C29_Witness ==
    /\ Len(vendors) = 2
    /\ \E p \in 1..Len(products) :
          /\ products[p].v >= 1
          /\ products[p].cveCount >= 2
          /\ Len(products[p].versions) = 2

(***************************************************************************)
(* C30  Termination of a batch: provided every store and file operation    *)
(* eventually returns, no record is attempted more than MaxRetries + 1     *)
(* times, and a processBatch that has not returned eventually returns its  *)
(* report with every record settled.                                       *)
(***************************************************************************)
C30_BatchTermination ==
    /\ [](\A t \in DOMAIN tasks : tasks[t].attempts <= MaxRetries + 1)
    /\ (batch.pc # "done")
          ~> (batch.pc = "done" /\ \A t \in DOMAIN tasks : tasks[t].pc = "done")

\* the batch returned after one record used up every retry and failed and
\* another one succeeded
C30_Witness ==
    /\ batch.pc = "done"
    /\ \E t \in DOMAIN tasks :
          tasks[t].attempts = MaxRetries + 1 /\ tasks[t].result = "failed"
    /\ \E u \in DOMAIN tasks : tasks[u].result = "success"

(***************************************************************************)
(* C31  Succeeded means persisted: when a record task settles as           *)
(* succeeded, the store holds an advisory whose cveId is the identifier    *)
(* the raw record carries, at either dialect's path.                       *)
(***************************************************************************)
C31_SettleStep ==
    \A t \in DOMAIN tasks :
        (tasks[t].result # "success" /\ tasks'[t].result = "success")
        => /\ Truthy(ExtractableId(files[t]))
           /\ DocsWithId(cves', ExtractableId(files[t])) # {}

C31_SucceededMeansPersisted == [][C31_SettleStep]_vars

(***************************************************************************)
(* C32  Key consistency of the upsert: the document an upsert writes       *)
(* carries as cveId the identifier the upsert used as its lookup key.      *)
(***************************************************************************)
\* the document the write step of task t writes: the one matched or found,
\* or the one appended
WrittenBy(t) ==
    IF tasks[t].pc = "cCreate" \/ (tasks[t].pc = "upWrite" /\ tasks[t].matched = 0)
    THEN Len(cves')
    ELSE tasks[t].matched

C32_WriteStep ==
    \A t \in DOMAIN tasks :
        (/\ tasks[t].pc \in {"upWrite", "cSave", "cCreate"}
         /\ tasks'[t].result = "success")
        => cves'[WrittenBy(t)].cveId = tasks[t].cveId

C32_KeyConsistency == [][C32_WriteStep]_vars

(***************************************************************************)
(* C33  No lost version labels under concurrent merges: when a             *)
(* Product.findOrCreate call that found the product and was given the      *)
(* version set V returns, while another call saved the same product in     *)
(* between, the stored version set holds every label of V and every label  *)
(* stored before; labels are never removed afterwards, so this is the      *)
(* state after both calls have returned.                                   *)
(***************************************************************************)
C33_ConcurrentMergeStep ==
    /\ \A t \in DOMAIN tasks :
          (/\ tasks[t].pc \in {"pSave", "pReread"}
           /\ tasks'[t].pc = "pInc")
          => (LabelsOf(ProductData(tasks[t]).versions)
                 \cup LabelsOf(products[tasks'[t].product].versions))
               \subseteq LabelsOf(products'[tasks'[t].product].versions)
    /\ \A p \in 1..Len(products) :
          LabelsOf(products[p].versions) \subseteq LabelsOf(products'[p].versions)

C33_NoLostLabels == [][C33_ConcurrentMergeStep]_vars

(***************************************************************************)
(* C34  A failed record leaves no residue: once processBatch has returned, *)
(* no Vendor and no Product has a counted advisory (cveCount > 0) without  *)
(* a stored advisory that references it; a record that failed has left no  *)
(* increment behind.                                                       *)
(***************************************************************************)
ReferencedProducts ==
    UNION { {cves[i].affectedProducts[k].product : k \in 1..Len(cves[i].affectedProducts)} :
            i \in 1..Len(cves) }

ReferencedVendors ==
    UNION { {cves[i].affectedProducts[k].vendor : k \in 1..Len(cves[i].affectedProducts)} :
            i \in 1..Len(cves) }

C34_NoResidue ==
    batch.pc = "done" =>
        /\ \A p \in 1..Len(products) :
              products[p].cveCount > 0 => p \in ReferencedProducts
        /\ \A v \in 1..Len(vendors) :
              vendors[v].cveCount > 0 => v \in ReferencedVendors

(***************************************************************************)
(* C35  No lost counter increments: when the records of the first run have *)
(* all succeeded, the cveCount of a Vendor or Product that k of them       *)
(* reference is exactly k (it was 0 before); and no step other than the    *)
(* increment changes a counter, so no save overwrites one.                 *)
(***************************************************************************)
AllSucceeded ==
    /\ run = 1
    /\ batch.pc = "done"
    /\ \A t \in DOMAIN tasks : tasks[t].result = "success"

C35_CountIsK ==
    AllSucceeded =>
        /\ \A v \in 1..Len(vendors) :
              vendors[v].cveCount = Cardinality(LocationsOfVendor(v))
        /\ \A p \in 1..Len(products) :
              products[p].cveCount = Cardinality(LocationsOfProduct(p))

C35_CounterStep ==
    /\ \A v \in 1..Len(vendors) :
          vendors'[v].cveCount # vendors[v].cveCount
          => /\ vendors'[v].cveCount = vendors[v].cveCount + 1
             /\ \E t \in DOMAIN tasks : tasks[t].pc = "vInc" /\ tasks[t].vendor = v
    /\ \A p \in 1..Len(products) :
          products'[p].cveCount # products[p].cveCount
          => /\ products'[p].cveCount = products[p].cveCount + 1
             /\ \E t \in DOMAIN tasks : tasks[t].pc = "pInc" /\ tasks[t].product = p

C35_NoLostIncrements == []C35_CountIsK /\ [][C35_CounterStep]_vars

\* the second half of C35 on its own
C35_NeverOverwritten == [][C35_CounterStep]_vars

(***************************************************************************)
(* C36  Referential integrity: every reference embedded in a stored        *)
(* advisory names a Vendor and a Product that exist in the store, the      *)
(* Product's vendor is the reference's vendor, and the names copied into   *)
(* the reference are the names of those two documents, under which they    *)
(* were resolved.                                                          *)
(***************************************************************************)
C36_ReferentialIntegrity ==
    \A i \in 1..Len(cves) : \A k \in 1..Len(cves[i].affectedProducts) :
        LET r == cves[i].affectedProducts[k]
            pairs == EligiblePairs(files[cves[i].sourceFile])
        IN  /\ r.vendor \in 1..Len(vendors)
            /\ r.product \in 1..Len(products)
            /\ products[r.product].vendor = r.vendor
            /\ vendors[r.vendor].name = r.vendorName
            /\ products[r.product].name = r.productName
            /\ \E n \in 1..Len(pairs) :
                   /\ pairs[n].vendorName = r.vendorName
                   /\ pairs[n].products[1].productName = r.productName

\* a stored advisory that references products of two vendors
C36_Witness ==
    \E i \in 1..Len(cves) :
        \E k, l \in 1..Len(cves[i].affectedProducts) :
            /\ cves[i].affectedProducts[k].vendor # cves[i].affectedProducts[l].vendor
            /\ cves[i].affectedProducts[k].vendorName # cves[i].affectedProducts[l].vendorName

(***************************************************************************)
(* C39  offeringCount reflects the store: when the records of a run have   *)
(* all succeeded, the productCount of every Vendor is the number of        *)
(* Products in the store whose vendor it is.                               *)
(***************************************************************************)
ProductsOfVendor(v) == {p \in 1..Len(products) : products[p].vendor = v}

C39_ProductCountReflectsStore ==
    (batch.pc = "done" /\ \A t \in DOMAIN tasks : tasks[t].result = "success")
    => \A v \in 1..Len(vendors) :
          vendors[v].productCount = Cardinality(ProductsOfVendor(v))

(***************************************************************************)
(* RecordNormalizer, continued: the severity CVE.fromRawData extracts      *)
(* (models/cveModel.js lines 168-233), and fromRawData on the two dialects *)
(***************************************************************************)
\* how many metric entries a container of the checked records holds at most
MaxMetrics == 2

SeqsUpTo(S, n) == UNION {[1..k -> S] : k \in 0..n}

\* the CVSS schemes the code looks for, in the order it looks for them:
\* cvssV2_0, cvssV3_0, cvssV3_1, cvssV4_0
Schemes == <<"2.0", "3.0", "3.1", "4.0">>

\* one element of a metrics array: an object with the key of its scheme.
\* A cvssV2_0 object is read at .severity, the others at .baseSeverity.
Metric(scheme, baseScore, label) ==
    [scheme |-> scheme, baseScore |-> baseScore,
     severity |-> IF scheme = "2.0" THEN label ELSE NoVal,
     baseSeverity |-> IF scheme = "2.0" THEN NoVal ELSE label]

\* cveData before any metric was read: cvssScore and severity are unset
NoSeverity == [cvssScore |-> 0, severity |-> NoVal]

\* metrics.find(metric => metric.cvssVx_y), 0 when there is none
FindMetric(metrics, scheme) ==
    FirstIndex({i \in 1..Len(metrics) : metrics[i].scheme = scheme})

\* the four "try CVSS" blocks run on one container, from schemes[k] on
RECURSIVE TrySchemes(_, _, _)
TrySchemes(cveData, metrics, k) ==
    IF k > Len(Schemes) THEN cveData
    ELSE LET i == FindMetric(metrics, Schemes[k])
             next == IF i = 0 THEN cveData
                     ELSE [cvssScore |-> metrics[i].baseScore,
                           severity |-> IF Schemes[k] = "2.0" THEN metrics[i].severity
                                        ELSE metrics[i].baseSeverity]
         IN  TrySchemes(next, metrics, k + 1)

\* if (container && container.metrics) { if (metrics.length > 0) {...} }
\* hasMetrics: container.metrics is defined (it is not on an array)
FromContainer(cveData, hasMetrics, metrics) ==
    IF hasMetrics /\ Len(metrics) > 0 THEN TrySchemes(cveData, metrics, 1) ELSE cveData

\* containers.adp is read first, containers.cna after it.  m.adpIsArray: the
\* record holds containers.adp as an array of containers, as dialect B
\* prescribes, and then containers.adp.metrics is undefined
ExtractSeverity(m) ==
    FromContainer(FromContainer(NoSeverity, ~m.adpIsArray, m.adp), TRUE, m.cna)

\* a logical advisory encoded as a dialect-B record (cveMetadata, containers.cna)
EncodeB(adv, id) ==
    [Raw("5.1", NoVal, id, <<[lang |-> "en", value |-> adv.description]>>,
         [k \in 1..Len(adv.affected) |->
             Aff(adv.affected[k].vendor, adv.affected[k].product,
                 [j \in 1..Len(adv.affected[k].versions) |->
                     Ver(adv.affected[k].versions[j].version,
                         IF adv.affected[k].versions[j].affected
                         THEN "affected" ELSE "unaffected")])])
     EXCEPT !.state = adv.state]

\* the same advisory encoded as a dialect-A record (CVE_data_meta,
\* description.description_data, affects.vendor.vendor_data): it has none
\* of the properties of dialect B
EncodeA(adv, id) ==
    Raw("4.0", id, NoVal, <<>>, <<>>) @@
    [STATE |-> adv.state,
     description_data |-> <<[lang |-> "eng", value |-> adv.description]>>,
     vendor_data |->
         [k \in 1..Len(adv.affected) |->
             [vendor_name |-> adv.affected[k].vendor,
              product_name |-> adv.affected[k].product,
              version_data |->
                  [j \in 1..Len(adv.affected[k].versions) |->
                      [version_value |-> adv.affected[k].versions[j].version,
                       version_affected |-> IF adv.affected[k].versions[j].affected
                                            THEN adv.affected[k].versions[j].operator
                                            ELSE "!"]]]]]

\* one element of impact.cvss of a dialect-A record
Cvss(version, baseScore) ==
    [version |-> version, baseScore |-> baseScore, baseSeverity |-> "IMPACT"]

\* what a record without containers offers the severity extraction
NoContainers == [adpIsArray |-> FALSE, adp |-> <<>>, cna |-> <<>>]

AdpMetrics == {Metric(Schemes[k], k, "ADP") : k \in 1..Len(Schemes)}
CnaMetrics == {Metric(Schemes[k], Len(Schemes) + k, "CNA") : k \in 1..Len(Schemes)}

MetricInputs ==
    [adpIsArray : BOOLEAN,
     adp : SeqsUpTo(AdpMetrics, MaxMetrics),
     cna : SeqsUpTo(CnaMetrics, MaxMetrics)]

\* the entries of impact.cvss the records are checked on
ImpactEntries == {Cvss("2.0", 1), Cvss("3.0", 2), Cvss("3.1", 3)}

Advisories ==
    [description : {"text"},
     state : {"PUBLISHED", "REJECTED"},
     affected : { <<>>,
                  <<[vendor |-> "Acme", product |-> "Widget",
                     versions |-> <<[version |-> "1.0", affected |-> TRUE,
                                     operator |-> "="]>>]>>,
                  <<[vendor |-> "Acme", product |-> "Widget",
                     versions |-> <<[version |-> "1.0", affected |-> TRUE,
                                     operator |-> "<="],
                                    [version |-> "2.0", affected |-> FALSE,
                                     operator |-> NoVal]>>]>> }]

\* the pipeline of processBatch is not running
PipelineIdle ==
    /\ files = <<>>
    /\ vendors = <<>>
    /\ products = <<>>
    /\ cves = <<>>
    /\ tasks = <<>>
    /\ batch = IdleBatch
    /\ run = 1
    /\ snap = <<>>

NormInit ==
    /\ PipelineIdle
    /\ repo = RepoIdle
    /\ proc = ProcIdle
    /\ cron = CronIdle
    /\ res = ResIdle
    /\ \E adv \in Advisories, m \in MetricInputs,
          cvss \in SeqsUpTo(ImpactEntries, MaxMetrics) :
          /\ cvss # <<>> => (m.adp = <<>> /\ m.cna = <<>> /\ ~m.adpIsArray)
          /\ norm = [pc |-> "called", adv |-> adv,
                     metrics |-> m,       \* containers.adp.metrics, containers.cna.metrics
                     impact |-> cvss,     \* impact.cvss of the dialect-A record
                     draftA |-> NoDraft, draftB |-> NoDraft,
                     scored |-> NoSeverity, scoredA |-> NoSeverity]

\* CVE.fromRawData returns: the draft of the record in either dialect, the
\* cvssScore and severity read from the metrics of the dialect-B record, and
\* those read from the dialect-A record, which has no containers (its
\* impact.cvss is read nowhere)
fromRawData_return ==
    /\ norm.pc = "called"
    /\ norm' = [norm EXCEPT !.pc = "returned",
                            !.draftA = fromRawData(EncodeA(norm.adv, Id1), 1),
                            !.draftB = fromRawData(EncodeB(norm.adv, Id1), 1),
                            !.scored = ExtractSeverity(norm.metrics),
                            !.scoredA = ExtractSeverity(NoContainers)]
    /\ UNCHANGED <<cron, res, repo, proc, files, vendors, products, cves, tasks, batch, run, snap>>

NormNext == fromRawData_return

SpecNormalizer == NormInit /\ [][NormNext]_vars

(***************************************************************************)
(* C14  Severity precedence: the cvssScore fromRawData returns is that of  *)
(* a metric of the highest scheme (2.0 < 3.0 < 3.1 < 4.0) present in any   *)
(* metrics container of the record, whichever container carries it.        *)
(***************************************************************************)
Rank(scheme) == CHOOSE k \in 1..Len(Schemes) : Schemes[k] = scheme

MetricsOf(m) == {m.adp[i] : i \in 1..Len(m.adp)} \cup {m.cna[i] : i \in 1..Len(m.cna)}

TopMetrics(m) ==
    {e \in MetricsOf(m) : \A f \in MetricsOf(m) : Rank(f.scheme) <= Rank(e.scheme)}

C14_SeverityPrecedence ==
    (norm.pc = "returned" /\ MetricsOf(norm.metrics) # {})
    => \E e \in TopMetrics(norm.metrics) : norm.scored.cvssScore = e.baseScore

(***************************************************************************)
(* C19  Dialect equivalence: the dialect-A and the dialect-B encoding of   *)
(* one advisory normalize to the same description, the same state and the  *)
(* same vendor/product/version entries.                                    *)
(***************************************************************************)
C19_DialectEquivalence ==
    norm.pc = "returned"
    => /\ norm.draftA.description = norm.draftB.description
       /\ norm.draftA.state = norm.draftB.state
       /\ norm.draftA.extracted = norm.draftB.extracted

(***************************************************************************)
(* C27  Version-affected flag derivation: fromRawData makes one version    *)
(* entry per version of the record; in dialect A its flag is true exactly  *)
(* when version_affected is one of =, <=, >=, in dialect B exactly when    *)
(* status is "affected".                                                   *)
(***************************************************************************)
C27_AffectedFlag ==
    norm.pc = "returned"
    => LET rawA == EncodeA(norm.adv, Id1).vendor_data
           rawB == EncodeB(norm.adv, Id1).affected
           outA == norm.draftA.extracted
           outB == norm.draftB.extracted
       IN  /\ Len(outB) = Len(rawB)
           /\ \A k \in 1..Len(rawB) :
                 /\ Len(outB[k].products[1].versions) = Len(rawB[k].versions)
                 /\ \A j \in 1..Len(rawB[k].versions) :
                       outB[k].products[1].versions[j].affected
                           = (rawB[k].versions[j].status = "affected")
           /\ Len(outA) = Len(rawA)
           /\ \A k \in 1..Len(rawA) :
                 /\ Len(outA[k].products[1].versions) = Len(rawA[k].version_data)
                 /\ \A j \in 1..Len(rawA[k].version_data) :
                       outA[k].products[1].versions[j].affected
                           = (rawA[k].version_data[j].version_affected
                                 \in {"=", "<=", ">="})

(***************************************************************************)
(* C28  Dialect-A severity selection: for a dialect-A record with entries  *)
(* at impact.cvss, in any order, the score fromRawData returns is that of  *)
(* an entry of version 3.1 if there is one, else of an entry of version    *)
(* 3.0 if there is one, else of one of the entries.                        *)
(***************************************************************************)
\* the entries at impact.cvss of the record
ElementsOfImpact == {norm.impact[i] : i \in 1..Len(norm.impact)}

ImpactOf(version) == {e \in ElementsOfImpact : e.version = version}

C28_LegacySeverity ==
    (norm.pc = "returned" /\ norm.impact # <<>>)
    => LET preferred == IF ImpactOf("3.1") # {} THEN ImpactOf("3.1")
                        ELSE IF ImpactOf("3.0") # {} THEN ImpactOf("3.0")
                        ELSE ElementsOfImpact
       IN  \E e \in preferred :
               /\ norm.scoredA.cvssScore = e.baseScore
               /\ norm.scoredA.severity = e.baseSeverity

(***************************************************************************)
(* CorpusSynchronizer: gitService.syncRepository and                       *)
(* getChangedFilesBetweenCommits.  A path is a sequence of pieces of text; *)
(* startsWith and endsWith compare the leading and the trailing pieces.    *)
(***************************************************************************)
\* how many lines the diff of the checked pulls holds at most
MaxDiff == 2

StartsWith(s, prefix) ==
    Len(prefix) <= Len(s) /\ SubSeq(s, 1, Len(prefix)) = prefix

EndsWith(s, suffix) ==
    Len(suffix) <= Len(s) /\ SubSeq(s, Len(s) - Len(suffix) + 1, Len(s)) = suffix

\* targetFolder.replace(/^\/|\/$/g, '')
TrimSlashes(folder) ==
    LET a == IF folder # <<>> /\ Head(folder) = "/" THEN Tail(folder) ELSE folder
    IN  IF a # <<>> /\ a[Len(a)] = "/" THEN SubSeq(a, 1, Len(a) - 1) ELSE a

\* config.github.localPath
LocalPath == <<"tmp", "/", "cvelist">>

\* path.join(this.localPath, filePath)
PathJoin(dir, filePath) == dir \o <<"/">> \o filePath

\* line => line.trim() !== ''
NotBlank(line) == line # <<>>

\* the two filters of getChangedFilesBetweenCommits and its map
FilterChanged(lines, targetFolder) ==
    LET targetPath == TrimSlashes(targetFolder)
        changedPaths == SelectSeq(lines, NotBlank)
        keep(filePath) == StartsWith(filePath, targetPath) /\ EndsWith(filePath, <<".json">>)
        jsonFiles == SelectSeq(changedPaths, keep)
    IN  [i \in 1..Len(jsonFiles) |-> PathJoin(LocalPath, jsonFiles[i])]

\* getChangedFilesBetweenCommits: a failure of git diff is caught and [] returned
getChangedFilesBetweenCommits(diffOk, lines, targetFolder) ==
    IF diffOk THEN FilterChanged(lines, targetFolder) ELSE <<>>

\* (a listing that finds nothing)
NoJsonFiles(tree, targetFolder) == <<>>

\* getJsonFiles: the files below path.join(localPath, targetFolder) that end
\* in .json
getJsonFiles(tree, targetFolder) ==
    LET dir == TrimSlashes(targetFolder) \o <<"/">>
        keep(filePath) == StartsWith(filePath, dir) /\ EndsWith(filePath, <<".json">>)
        found == SelectSeq(tree, keep)
    IN  [i \in 1..Len(found) |-> PathJoin(LocalPath, found[i])]

\* beforePull !== afterPull
NeverMoved(beforePull, afterPull) == FALSE

RevisionMoved(beforePull, afterPull) == beforePull # afterPull

\* the paths of the corpus repository the pulls are checked on (the last is
\* the blank line that ends the output of git diff)
WorkTree ==
    << <<"cves", "/", "a", ".json">>,
       <<"cves", "/", "sub", "/", "b", ".json">>,
       <<"cves", "/", "a", ".txt">>,
       <<"cves", "2", "/", "a", ".json">>,
       <<"cves", ".json">>,
       <<"docs", "/", "a", ".json">> >>

DiffLines == {WorkTree[i] : i \in 1..Len(WorkTree)} \cup {<<>>}

TargetFolders == { <<"cves">>, <<"/", "cves", "/">> }

RepoInit ==
    /\ PipelineIdle
    /\ norm = NormIdle
    /\ proc = ProcIdle
    /\ cron = CronIdle
    /\ res = ResIdle
    /\ \E isRepo \in BOOLEAN, gitOk \in BOOLEAN, diffOk \in BOOLEAN,
          folder \in TargetFolders, head \in {"r1", "r2"},
          lines \in SeqsUpTo(DiffLines, MaxDiff) :
          /\ (head = "r1" => lines = <<>>)
          /\ repo = [pc |-> "called",
                     isRepo |-> isRepo,         \* localPath/.git exists
                     gitOk |-> gitOk,           \* the pull or the clone succeeds
                     diffOk |-> diffOk,         \* git diff succeeds
                     targetFolder |-> folder,
                     head |-> "r1",             \* HEAD of the clone
                     origin |-> head,           \* head of the remote branch
                     lines |-> lines,           \* git diff r1..origin --name-only
                     beforePull |-> NoVal,
                     afterPull |-> NoVal,
                     changedFiles |-> <<>>]

\* the repository exists: revparse, pull, revparse
syncRepository_pull ==
    /\ repo.pc = "called"
    /\ repo.isRepo
    /\ repo' = IF repo.gitOk
               THEN [repo EXCEPT !.beforePull = repo.head, !.head = repo.origin,
                                 !.afterPull = repo.origin, !.pc = "pulled"]
               ELSE [repo EXCEPT !.beforePull = repo.head, !.pc = "thrown"]
    /\ UNCHANGED <<cron, res, norm, proc, files, vendors, products, cves, tasks, batch, run, snap>>

\* the comparison of the two revisions and what follows it, up to the return
syncRepository_compare ==
    /\ repo.pc = "pulled"
    /\ repo' = [repo EXCEPT
                  !.changedFiles =
                      IF RevisionMoved(repo.beforePull, repo.afterPull)
                      THEN getChangedFilesBetweenCommits(repo.diffOk, repo.lines,
                                                         repo.targetFolder)
                      ELSE <<>>,
                  !.pc = "returned"]
    /\ UNCHANGED <<cron, res, norm, proc, files, vendors, products, cves, tasks, batch, run, snap>>

\* the repository does not exist: cloneTargetFolder, then every JSON file
syncRepository_clone ==
    /\ repo.pc = "called"
    /\ ~repo.isRepo
    /\ repo' = IF repo.gitOk
               THEN [repo EXCEPT !.head = repo.origin,
                                 !.changedFiles = getJsonFiles(WorkTree, repo.targetFolder),
                                 !.pc = "returned"]
               ELSE [repo EXCEPT !.pc = "thrown"]
    /\ UNCHANGED <<cron, res, norm, proc, files, vendors, products, cves, tasks, batch, run, snap>>

RepoNext ==
    \/ syncRepository_pull
    \/ syncRepository_compare
    \/ syncRepository_clone

SpecSync == RepoInit /\ [][RepoNext]_vars

\* the path lies inside the tracked subtree
InSubtree(filePath, targetFolder) ==
    StartsWith(filePath, TrimSlashes(targetFolder) \o <<"/">>)

ElementsOf(seq) == {seq[i] : i \in 1..Len(seq)}

\* a pull moved HEAD and git diff listed the changed paths
Diffed ==
    /\ repo.pc = "returned"
    /\ repo.isRepo
    /\ repo.beforePull # repo.afterPull
    /\ repo.diffOk

(***************************************************************************)
(* C15  Incremental filtering: what getChangedFilesBetweenCommits returns  *)
(* for a diff is exactly the paths of the diff that lie inside the tracked *)
(* subtree and end in .json.                                               *)
(***************************************************************************)
C15_IncrementalFiltering ==
    Diffed =>
        ElementsOf(repo.changedFiles) =
            {PathJoin(LocalPath, f) : f \in
                {g \in ElementsOf(repo.lines) :
                    InSubtree(g, repo.targetFolder) /\ EndsWith(g, <<".json">>)}}

C37_NoChangeLost ==
    (repo.pc = "returned" /\ repo.isRepo /\ repo.beforePull # repo.afterPull)
    => \A f \in ElementsOf(repo.lines) :
          (InSubtree(f, repo.targetFolder) /\ EndsWith(f, <<".json">>))
          => PathJoin(LocalPath, f) \in ElementsOf(repo.changedFiles)

(***************************************************************************)
(* C21  Degradation to full sync: when no local repository exists,         *)
(* syncRepository returns, each once, exactly the paths of the work tree   *)
(* that lie inside the tracked subtree and end in .json: what a full sync  *)
(* lists.                                                                  *)
(***************************************************************************)
C21_DegradesToFullSync ==
    (repo.pc = "returned" /\ ~repo.isRepo)
    => /\ ElementsOf(repo.changedFiles) =
              {PathJoin(LocalPath, f) : f \in
                  {g \in ElementsOf(WorkTree) :
                      InSubtree(g, repo.targetFolder) /\ EndsWith(g, <<".json">>)}}
       /\ Len(repo.changedFiles) = Cardinality(ElementsOf(repo.changedFiles))

\* a fresh clone returned the two records of the subtree, the nested one too
C21_Witness ==
    /\ repo.pc = "returned"
    /\ ~repo.isRepo
    /\ repo.beforePull = NoVal
    /\ repo.changedFiles =
           << PathJoin(LocalPath, <<"cves", "/", "a", ".json">>),
              PathJoin(LocalPath, <<"cves", "/", "sub", "/", "b", ".json">>) >>

(***************************************************************************)
(* The run: server.js main.  The steps of main are taken one await at a    *)
(* time; processBatch is summarized by the report it returns.  What the    *)
(* store and the corpus source do for the run is fixed when it starts.     *)
(***************************************************************************)
\* how many JSON files the checked runs find at most
MaxFiles == 2

\* (a catch block that leaves the connection alone)
NoDisconnect(p) == p

\* dbService.disconnect: nothing to do when not connected; a failure of
\* mongoose.disconnect is caught and logged, connected is left as it is
disconnect(p) ==
    LET called == [p EXCEPT !.disconnects = @ + 1]
    IN  IF ~p.connected THEN called
        ELSE IF p.closeOk THEN [called EXCEPT !.connected = FALSE]
        ELSE called

\* the catch block of main, entered with the error of step `at`
main_throw(p, at) == [p EXCEPT !.pc = "catch", !.error = at]

ProcInit ==
    /\ PipelineIdle
    /\ norm = NormIdle
    /\ repo = RepoIdle
    /\ res = ResIdle
    /\ cron = CronIdle
    /\ \E connectOk \in BOOLEAN, cloneOk \in BOOLEAN, listOk \in BOOLEAN,
          closeOk \in BOOLEAN, total \in 0..MaxFiles :
          \E failed \in 0..total :
              proc = [pc |-> "connect",
                      connectOk |-> connectOk,   \* mongoose.connect resolves
                      cloneOk |-> cloneOk,       \* the clone or pull succeeds
                      listOk |-> listOk,         \* the target folder can be read
                      closeOk |-> closeOk,       \* mongoose.disconnect resolves
                      total |-> total,           \* JSON files in the target folder
                      failed |-> failed,         \* records that will fail for good
                      connected |-> FALSE,       \* dbService.connected
                      disconnects |-> 0,         \* calls of dbService.disconnect (history)
                      report |-> [returned |-> FALSE, total |-> 0, success |-> 0,
                                  failed |-> 0],
                      error |-> "none",
                      exitCode |-> -1]           \* -1: the process has not exited

\* Step 1: dbService.connect()
main_connect ==
    /\ proc.pc = "connect"
    /\ proc' = IF proc.connectOk
               THEN [proc EXCEPT !.connected = TRUE, !.pc = "clone"]
               ELSE main_throw(proc, "connect")
    /\ UNCHANGED <<cron, res, norm, repo, files, vendors, products, cves, tasks, batch, run, snap>>

\* Step 2: gitService.cloneTargetFolder()
main_cloneTargetFolder ==
    /\ proc.pc = "clone"
    /\ proc' = IF proc.cloneOk THEN [proc EXCEPT !.pc = "list"]
               ELSE main_throw(proc, "cloneTargetFolder")
    /\ UNCHANGED <<cron, res, norm, repo, files, vendors, products, cves, tasks, batch, run, snap>>

\* Step 3: gitService.getJsonFiles()
main_getJsonFiles ==
    /\ proc.pc = "list"
    /\ proc' = IF proc.listOk THEN [proc EXCEPT !.pc = "batch"]
               ELSE main_throw(proc, "getJsonFiles")
    /\ UNCHANGED <<cron, res, norm, repo, files, vendors, products, cves, tasks, batch, run, snap>>

\* Step 4: fileService.processBatch(jsonFiles, processFunction) returns its
\* report; it throws nothing
main_processBatch ==
    /\ proc.pc = "batch"
    /\ proc' = [proc EXCEPT
                  !.report = [returned |-> TRUE, total |-> proc.total,
                              success |-> proc.total - proc.failed,
                              failed |-> proc.failed],
                  !.pc = "stats"]
    /\ UNCHANGED <<cron, res, norm, repo, files, vendors, products, cves, tasks, batch, run, snap>>

\* Step 5: dbService.getStats(); the DBService of services/dbService.js has
\* no such method, the call is a TypeError
main_getStats ==
    /\ proc.pc = "stats"
    /\ proc' = main_throw(proc, "getStats")
    /\ UNCHANGED <<cron, res, norm, repo, files, vendors, products, cves, tasks, batch, run, snap>>

\* catch (error): dbService.disconnect(), process.exit(1)
main_catch ==
    /\ proc.pc = "catch"
    /\ proc' = [disconnect(proc) EXCEPT !.pc = "exited", !.exitCode = 1]
    /\ UNCHANGED <<cron, res, norm, repo, files, vendors, products, cves, tasks, batch, run, snap>>

ProcNext ==
    \/ main_connect
    \/ main_cloneTargetFolder
    \/ main_getJsonFiles
    \/ main_processBatch
    \/ main_getStats
    \/ main_catch

SpecMain == ProcInit /\ [][ProcNext]_vars

C18_ExitStatus ==
    proc.pc = "exited"
    => IF proc.connectOk /\ proc.cloneOk /\ proc.listOk
       THEN proc.report.returned /\ proc.exitCode = 0
       ELSE proc.exitCode = 1

(***************************************************************************)
(* EntityResolver on its own: one call of findOrCreateVendor               *)
(* (services/productService.js 10-32) or of Product.findOrCreate           *)
(* (productModel, unnamed/part_008 45-128), with the answers of the store  *)
(* to its reads and writes fixed when the call starts.  Here the store     *)
(* belongs to other clients as well, so a read after a duplicate key       *)
(* error may find nothing.                                                 *)
(***************************************************************************)
\* the call returns the document it holds
resolve_return(r, entity) ==
    [r EXCEPT !.pc = "ended", !.result = "returned", !.entity = entity]

\* the call throws; the catch blocks of both operations log and rethrow
resolve_throw(r, error) ==
    [r EXCEPT !.pc = "ended", !.result = "thrown", !.error = error]

\* (the document of the second findOne returned whatever it is)
returnWhateverFound(r, found) ==
    resolve_return(r, IF found THEN "found" ELSE "absent")

\* Product.findOrCreate after an E11000 of create: the second findOne, and
\* if (!product) throw new Error(`Failed to find product ... after duplicate key error`)
afterDuplicateKey(r, found) ==
    IF found THEN resolve_return(r, "found")
    ELSE resolve_throw(r, LostProductError("Product.findOrCreate"))

\* Product.findOrCreate after a VersionError of save: the findOne, and
\* if (!product) throw new Error(`Failed to find product ... after version error`)
afterVersionError(r, found) ==
    IF found THEN resolve_return(r, "found")
    ELSE resolve_throw(r, LostProductVersionError("Product.findOrCreate"))

ResInit ==
    /\ PipelineIdle
    /\ norm = NormIdle
    /\ repo = RepoIdle
    /\ proc = ProcIdle
    /\ cron = CronIdle
    /\ \E op \in {"vendor", "product"}, found \in BOOLEAN,
          created \in {"ok", "E11000", "ValidationError"},
          refound \in BOOLEAN,
          saved \in {"ok", "VersionError", "ValidationError"},
          reread \in BOOLEAN :
          \* vendor.save() assigns lastSeen alone: it is not conditional on __v
          /\ (op = "vendor" => saved # "VersionError")
          /\ res = [pc |-> "findOne",
                    op |-> op,             \* which operation is called
                    found |-> found,       \* the first findOne finds the document
                    created |-> created,   \* how create ends
                    refound |-> refound,   \* the findOne after E11000 finds it
                    saved |-> saved,       \* how save ends
                    reread |-> reread,     \* the findOne after VersionError finds it
                    result |-> "none",     \* returned / thrown
                    entity |-> "none",     \* what was returned: created, found, absent
                    error |-> NoErr,       \* what was thrown
                    creates |-> 0,         \* calls of create (history)
                    reads |-> 0]           \* calls of findOne (history)

\* Vendor.findOne({ name }) / this.findOne({ name, vendor })
resolve_findOne ==
    /\ res.pc = "findOne"
    /\ res' = [res EXCEPT !.reads = @ + 1,
                          !.pc = IF res.found THEN "save" ELSE "create"]
    /\ UNCHANGED <<cron, norm, repo, proc, files, vendors, products, cves, tasks, batch, run, snap>>

\* Vendor.create(...): any error is rethrown.  this.create(...) of
\* Product.findOrCreate: E11000 leads to the second findOne, any other error
\* is rethrown
resolve_create ==
    /\ res.pc = "create"
    /\ LET r == [res EXCEPT !.creates = @ + 1]
       IN  res' =
             IF res.created = "ok" THEN resolve_return(r, "created")
             ELSE IF res.created = "E11000"
             THEN IF res.op = "product" THEN [r EXCEPT !.pc = "refind"]
                  ELSE resolve_throw(r, DupKeyError("Vendor.create"))
             ELSE resolve_throw(r, IF res.op = "product"
                                   THEN ProductCastError("Product.create")
                                   ELSE VendorValidationError("Vendor.create"))
    /\ UNCHANGED <<cron, norm, repo, proc, files, vendors, products, cves, tasks, batch, run, snap>>

\* Product.findOrCreate: the findOne after the duplicate key error
resolve_refind ==
    /\ res.pc = "refind"
    /\ res' = afterDuplicateKey([res EXCEPT !.reads = @ + 1], res.refound)
    /\ UNCHANGED <<cron, norm, repo, proc, files, vendors, products, cves, tasks, batch, run, snap>>

\* vendor.save() / product.save(): a VersionError of product.save leads to the
\* findOne of the latest document, any other error is rethrown
resolve_save ==
    /\ res.pc = "save"
    /\ res' =
          IF res.saved = "ok" THEN resolve_return(res, "found")
          ELSE IF res.saved = "VersionError" THEN [res EXCEPT !.pc = "reread"]
          ELSE resolve_throw(res, IF res.op = "product"
                                  THEN ProductCastError("Product.save")
                                  ELSE VendorValidationError("Vendor.save"))
    /\ UNCHANGED <<cron, norm, repo, proc, files, vendors, products, cves, tasks, batch, run, snap>>

\* Product.findOrCreate: the findOne after the VersionError
resolve_reread ==
    /\ res.pc = "reread"
    /\ res' = afterVersionError([res EXCEPT !.reads = @ + 1], res.reread)
    /\ UNCHANGED <<cron, norm, repo, proc, files, vendors, products, cves, tasks, batch, run, snap>>

ResNext ==
    \/ resolve_findOne
    \/ resolve_create
    \/ resolve_refind
    \/ resolve_save
    \/ resolve_reread

SpecResolve == ResInit /\ [][ResNext]_vars

(***************************************************************************)
(* C25  Unrecoverable lost race: a resolve operation whose create failed   *)
(* with a uniqueness violation, and whose re-read by natural key (if it    *)
(* makes one) found nothing, ends by throwing; no resolve operation        *)
(* returns an absent entity or calls create a second time.                 *)
(***************************************************************************)
\* the operation lost the race for good
LostRace ==
    /\ res.pc = "ended"
    /\ res.creates >= 1
    /\ res.created = "E11000"
    /\ ~(res.op = "product" /\ res.refound)

C25_LostRaceIsFatal ==
    /\ LostRace => (res.result = "thrown" /\ res.entity = "none" /\ res.error # NoErr)
    /\ res.entity # "absent"
    /\ res.creates <= 1

\* Product.findOrCreate lost the race, read again, found nothing and threw
C25_Witness ==
    /\ LostRace
    /\ res.op = "product"
    /\ res.reads = 2
    /\ res.result = "thrown"
    /\ res.error = LostProductError("Product.findOrCreate")

(***************************************************************************)
(* The scheduler: cron.js (unnamed/part_003 1-17) calls main of server.js  *)
(* on every tick of config.cron.schedule, whether or not the call of the   *)
(* tick before has returned.  All calls share the one process and the one  *)
(* DBService that services/dbService.js exports.  A run's record tasks are *)
(* summarized by how many of them have not settled yet.                    *)
(***************************************************************************)
\* how many ticks of the schedule are looked at
MaxTicks == 2

Ticks == 1..MaxTicks

CronInit ==
    /\ PipelineIdle
    /\ norm = NormIdle
    /\ repo = RepoIdle
    /\ proc = ProcIdle
    /\ res = ResIdle
    /\ \E connectOk \in BOOLEAN, closeOk \in BOOLEAN,
          cloneOk \in [Ticks -> BOOLEAN], listOk \in [Ticks -> BOOLEAN],
          total \in [Ticks -> 0..MaxFiles] :
          cron = [pc |-> "running",
                  connectOk |-> connectOk,     \* mongoose.connect resolves
                  closeOk |-> closeOk,         \* mongoose.disconnect resolves
                  disconnects |-> 0,           \* calls of dbService.disconnect (history)
                  connected |-> FALSE,         \* dbService.connected
                  exitCode |-> -1,             \* -1: the process has not exited
                  runs |-> [r \in Ticks |->
                              [pc |-> "scheduled",
                               cloneOk |-> cloneOk[r],  \* the clone succeeds
                               listOk |-> listOk[r],    \* the folder can be read
                               total |-> total[r],      \* JSON files it finds
                               pending |-> 0]]]         \* record tasks not settled

\* the call of main started by tick r is at pc
CronAt(r, pc) == cron.pc = "running" /\ cron.runs[r].pc = pc

\* the tick: the callback of cron.schedule calls main()
cron_schedule(r) ==
    /\ CronAt(r, "scheduled")
    /\ \A q \in Ticks : q < r => cron.runs[q].pc # "scheduled"
    /\ cron' = [cron EXCEPT !.runs[r].pc = "connect"]
    /\ UNCHANGED <<proc, res, norm, repo, files, vendors, products, cves, tasks, batch, run, snap>>

\* Step 1: dbService.connect(): if (this.connected) return
cron_connect(r) ==
    /\ CronAt(r, "connect")
    /\ cron' = IF cron.connected THEN [cron EXCEPT !.runs[r].pc = "clone"]
               ELSE IF cron.connectOk
               THEN [cron EXCEPT !.connected = TRUE, !.runs[r].pc = "clone"]
               ELSE [cron EXCEPT !.runs[r].pc = "catch"]
    /\ UNCHANGED <<proc, res, norm, repo, files, vendors, products, cves, tasks, batch, run, snap>>

\* Step 2: gitService.cloneTargetFolder()
cron_cloneTargetFolder(r) ==
    /\ CronAt(r, "clone")
    /\ cron' = [cron EXCEPT !.runs[r].pc = IF cron.runs[r].cloneOk THEN "list" ELSE "catch"]
    /\ UNCHANGED <<proc, res, norm, repo, files, vendors, products, cves, tasks, batch, run, snap>>

\* Step 3: gitService.getJsonFiles(), and the call of processBatch with them
cron_getJsonFiles(r) ==
    /\ CronAt(r, "list")
    /\ cron' = IF cron.runs[r].listOk
               THEN [cron EXCEPT !.runs[r].pending = cron.runs[r].total,
                                 !.runs[r].pc = "batch"]
               ELSE [cron EXCEPT !.runs[r].pc = "catch"]
    /\ UNCHANGED <<proc, res, norm, repo, files, vendors, products, cves, tasks, batch, run, snap>>

\* Step 4, one record task of processBatch settles
cron_settle(r) ==
    /\ CronAt(r, "batch")
    /\ cron.runs[r].pending > 0
    /\ cron' = [cron EXCEPT !.runs[r].pending = @ - 1]
    /\ UNCHANGED <<proc, res, norm, repo, files, vendors, products, cves, tasks, batch, run, snap>>

\* Step 4, processBatch returns its report
cron_processBatch(r) ==
    /\ CronAt(r, "batch")
    /\ cron.runs[r].pending = 0
    /\ cron' = [cron EXCEPT !.runs[r].pc = "stats"]
    /\ UNCHANGED <<proc, res, norm, repo, files, vendors, products, cves, tasks, batch, run, snap>>

\* Step 5: dbService.getStats() is a TypeError
cron_getStats(r) ==
    /\ CronAt(r, "stats")
    /\ cron' = [cron EXCEPT !.runs[r].pc = "catch"]
    /\ UNCHANGED <<proc, res, norm, repo, files, vendors, products, cves, tasks, batch, run, snap>>

\* catch (error): await dbService.disconnect()
cron_catch(r) ==
    /\ CronAt(r, "catch")
    /\ cron' = [disconnect(cron) EXCEPT !.runs[r].pc = "exit"]
    /\ UNCHANGED <<proc, res, norm, repo, files, vendors, products, cves, tasks, batch, run, snap>>

\* process.exit(1)
cron_exit(r) ==
    /\ CronAt(r, "exit")
    /\ cron' = [cron EXCEPT !.pc = "exited", !.exitCode = 1]
    /\ UNCHANGED <<proc, res, norm, repo, files, vendors, products, cves, tasks, batch, run, snap>>

CronNext ==
    \E r \in Ticks :
        \/ cron_schedule(r)
        \/ cron_connect(r)
        \/ cron_cloneTargetFolder(r)
        \/ cron_getJsonFiles(r)
        \/ cron_settle(r)
        \/ cron_processBatch(r)
        \/ cron_getStats(r)
        \/ cron_catch(r)
        \/ cron_exit(r)

SpecCron == CronInit /\ [][CronNext]_vars

(***************************************************************************)
(* C38  Overlapping runs: no run of main releases the connection of the    *)
(* shared dbService, and none exits the process, in a step in which        *)
(* another run has record tasks in flight.                                 *)
(***************************************************************************)
\* the run of tick r has record tasks in flight
TasksInFlight(r) == cron.runs[r].pc = "batch" /\ cron.runs[r].pending > 0

\* this step is run r releasing the connection or exiting the process
ReleasesOrExits(r) ==
    \/ /\ cron.runs[r].pc = "catch"
       /\ cron.connected
       /\ ~cron'.connected
    \/ /\ cron.runs[r].pc = "exit"
       /\ cron'.pc = "exited"

C38_OverlapStep ==
    \A r \in Ticks :
        ReleasesOrExits(r) => \A q \in Ticks \ {r} : ~TasksInFlight(q)

C38_OverlappingRuns == [][C38_OverlapStep]_vars

====
